---- MODULE Spec2Model ----
(***************************************************************************)
(* Model of the `sbom` command (src/Syft/SbomCommand.py): for every target *)
(* project an initial Custom Software SBOM is assembled from the project   *)
(* dependency graph and written to a per-project file; afterwards the      *)
(* Syft-generated dependency metadata SBOMs of .NET and third-party        *)
(* JavaScript projects are merged into that file, one read-modify-write    *)
(* per project.                                                            *)
(*                                                                         *)
(* JSON objects are functions from their keys to their values, JSON arrays *)
(* are sequences, a Python dict is the sequence of its (key, value) pairs  *)
(* in insertion order.  The project graph (ProjectGraph, TaskGenerator     *)
(* attributes, Project classifiers) lives outside src/ and is consumed as  *)
(* a read-only oracle: GetImmediateDependencies returns a fresh set.       *)
(***************************************************************************)
EXTENDS Integers, Sequences, FiniteSets, TLC

\* ---------------------------------------------------------------------
\* Bounds of the model
\* ---------------------------------------------------------------------

\* Longest 'components' array of a dependency metadata SBOM.
MaxFragLen == 2

\* Longest list of target projects given on the command line.
MaxTargets == 2

\* The projects of the dependency graph, by name.
Projects == {"R", "A", "T"}

\* The graph is acyclic: a project only uses projects later in this order.
ProjectOrder == <<"R", "A", "T">>

\* ---------------------------------------------------------------------
\* Values
\* ---------------------------------------------------------------------

\* Python's None for an attribute that is not set.
None == "None"

\* No exception.
NoError == [type |-> "none"]

\* Feature names that mark a .NET project.
DOT_NET_FEATURE_NAMES == {"dot_net", "dot_net_framework", "asp_net_website", "asp_net_library"}

JAVASCRIPT_FEATURE_NAME == "javascript"

COMMAND_NAME == "Waf SBOM Command"

COMMAND_VERSION == "1.0.0"

\* All orders in which a set can be iterated.
Orderings(S) ==
    {s \in [1..Cardinality(S) -> S] : \A i, j \in 1..Cardinality(S) : s[i] = s[j] => i = j}

Range(s) == {s[i] : i \in 1..Len(s)}

VARIABLES
    uses,           \* project -> the projects it uses (its immediate dependencies)
    tgen,           \* project -> the attributes of its task generator
    options,        \* the command line options
    TargetProjects, \* the target projects of the run, in order
    pc,             \* where Execute is
    targetIndex,    \* index of the current target project in TargetProjects
    loopIndex,      \* index of the current key of the lookup in the current loop
    lookup,         \* project_to_unique_project_id_lookup: <<project, id>> pairs
    files,          \* target project name -> its CustomSoftwareSbom.json
    now,            \* the clock
    log,            \* what the last step logged
    last,           \* what the last step did
    raised,         \* the exception that left Execute, or NoError
    resolved,       \* the last call of _GetSbomComponentJsonObject on its own
    archived,       \* the files of the run before the document version was bumped
    calls,          \* the calls of Merge that run side by side, each with what it holds in memory
    suspended,      \* the position of the run of Execute that is not the one taking steps
    fragments       \* the longest 'components' array that Syft produces in this run

vars == <<uses, tgen, options, TargetProjects, pc, targetIndex, loopIndex, lookup,
          files, now, log, last, raised, resolved, archived, calls, suspended, fragments>>

\* ---------------------------------------------------------------------
\* The project graph (oracle)
\* ---------------------------------------------------------------------

GetImmediateDependencies(project) == uses[project]

RECURSIVE Reach(_, _)
Reach(frontier, seen) ==
    LET next == UNION {uses[p] : p \in frontier} \ seen
    IN  IF next = {} THEN seen ELSE Reach(next, seen \cup next)

\* All transitive dependencies of a project.
GetAllDependencies(project) == Reach({project}, {})

IsThirdParty(project) == tgen[project].third_party

IsLibrary(project) == tgen[project].library

IsDefaultVersionProject(project) == tgen[project].default_version

GetFeatures(project) == tgen[project].features

\* ---------------------------------------------------------------------
\* _GetSbomComponentJsonObject
\* ---------------------------------------------------------------------

\* Mutant of product_version: the version of the SBOM document is taken
\* for the version of the product.
DocumentVersionAsProductVersion == ToString(options.sbom_document_version)

\* waflib.Options.options.product_version
product_version == "9.9"

WarnNoVersion(name) == [level |-> "warn", about |-> "version", project |-> name]

WarnNoLicense(name) == [level |-> "warn", about |-> "license", project |-> name]

\* Mutant of WarnNoPurl: logged as information, not as a warning.
InfoNoPurl(name) == [level |-> "info", about |-> "purl", project |-> name]

WarnNoPurl(name) == [level |-> "warn", about |-> "purl", project |-> name]

\* Mutant of GenericPackageUrl: the version of the product, not the one
\* resolved for the component.
GenericPackageUrlOfProduct(name, version_number) == "pkg:generic/" \o name \o "@" \o product_version

\* The generic package URL of a third-party project without one.
GenericPackageUrl(name, version_number) == "pkg:generic/" \o name \o "@" \o version_number

\* Mutant of InheritedAttribute: the value of the inherited version project
\* wins over the project's own.
ReferencedAttributeFirst(own, inherited_version_project, attribute) ==
    IF inherited_version_project \in Projects /\ tgen[inherited_version_project][attribute] /= None
    THEN tgen[inherited_version_project][attribute]
    ELSE own

\* Mutant of InheritedAttribute: when the inherited version project has no
\* value and is a default version project itself, the value of the project
\* that it references is taken.
InheritedThroughAttribute(own, inherited_version_project, attribute) ==
    IF own /= None THEN own
    ELSE IF inherited_version_project \notin Projects THEN None
    ELSE IF tgen[inherited_version_project][attribute] /= None
    THEN tgen[inherited_version_project][attribute]
    ELSE IF tgen[inherited_version_project].default_version /\ uses[inherited_version_project] /= {}
    THEN tgen[CHOOSE q \in uses[inherited_version_project] : TRUE][attribute]
    ELSE None

\* Mutant of InheritedAttribute: nothing is inherited.
OwnAttribute(own, inherited_version_project, attribute) == own

\* Resolution of one attribute: the project's own value, else the value of
\* the inherited version project (when there is one), else not provided.
InheritedAttribute(own, inherited_version_project, attribute) ==
    IF own /= None THEN own
    ELSE IF inherited_version_project \in Projects
         THEN tgen[inherited_version_project][attribute]
         ELSE None

\* The outcomes of immediate_dependencies.pop() for a project: None when
\* the project is not a default version project (nothing is popped), an
\* arbitrary immediate dependency otherwise, "KeyError" on an empty set.
PopOutcomes(project) ==
    IF ~IsDefaultVersionProject(project) THEN {None}
    ELSE IF GetImmediateDependencies(project) = {} THEN {"KeyError"}
         ELSE GetImmediateDependencies(project)

\* One outcome of pop() for every project.
PopChoices ==
    {f \in [Projects -> Projects \cup {None, "KeyError"}] : \A p \in Projects : f[p] \in PopOutcomes(p)}

\* The component of a project, the warnings logged on the way and the
\* exception raised, if any.  inherited_version_project is what
\* immediate_dependencies.pop() returned.
GetSbomComponentJsonObject(project, inherited_version_project) ==
    LET t == tgen[project]
        project_is_third_party == IsThirdParty(project)
        version_found == InheritedAttribute(t.version_number, inherited_version_project, "version_number")
        version_number ==
            IF version_found /= None THEN version_found
            ELSE IF project_is_third_party THEN "Unknown" ELSE product_version
        version_warnings ==
            IF version_found = None /\ project_is_third_party THEN <<WarnNoVersion(project)>> ELSE <<>>
        license_found == InheritedAttribute(t.license_name, inherited_version_project, "license_name")
        license_name ==
            IF license_found /= None THEN license_found
            ELSE IF project_is_third_party THEN "Unknown Third-Party License"
                 ELSE "Your Organization Proprietary"
        license_warnings ==
            IF license_found = None /\ project_is_third_party THEN <<WarnNoLicense(project)>> ELSE <<>>
        component_type == IF IsLibrary(project) THEN "library" ELSE "application"
        package_url_found == InheritedAttribute(t.sbom_package_url, inherited_version_project, "sbom_package_url")
        package_url_missing_for_third_party_project == project_is_third_party /\ package_url_found = None
        package_url ==
            IF package_url_missing_for_third_party_project
            THEN GenericPackageUrl(project, version_number)
            ELSE package_url_found
        package_url_warnings ==
            IF package_url_missing_for_third_party_project THEN <<WarnNoPurl(project)>> ELSE <<>>
        unique_id == IF t.sbom_unique_id /= None THEN t.sbom_unique_id ELSE project
        base == ("bom-ref" :> unique_id) @@ ("type" :> component_type) @@ ("name" :> project)
                @@ ("version" :> version_number)
                @@ ("licenses" :> <<[license |-> [name |-> license_name]]>>)
        component == IF package_url /= None THEN base @@ ("purl" :> package_url) ELSE base
    IN  IF inherited_version_project = "KeyError"
        THEN [component |-> <<>>, warnings |-> <<>>, raised |-> [type |-> "KeyError"]]
        ELSE [component |-> component,
              warnings |-> version_warnings \o license_warnings \o package_url_warnings,
              raised |-> NoError]

\* ---------------------------------------------------------------------
\* The lookup from projects to unique ids (a dict, in insertion order)
\* ---------------------------------------------------------------------

LookupKeys(lk) == [i \in 1..Len(lk) |-> lk[i][1]]

LookupValues(lk) == {lk[i][2] : i \in 1..Len(lk)}

LookupHas(lk, project) == \E i \in 1..Len(lk) : lk[i][1] = project

LookupGet(lk, project) == lk[CHOOSE i \in 1..Len(lk) : lk[i][1] = project][2]

\* ---------------------------------------------------------------------
\* _GetSbomComponentJsonObjectsForProjectAndDependencies
\* ---------------------------------------------------------------------

DuplicateBomRefError(project_id) == [type |-> "WafError", duplicate |-> project_id]

\* Mutant of ProjectIdAlreadyDefined: the check is left out.
NeverAlreadyDefined(project_id, lk) == FALSE

\* Whether a bom-ref is already used by a project of the lookup.
ProjectIdAlreadyDefined(project_id, lk) == project_id \in LookupValues(lk)

\* The loop over the set of projects, iterated in the given order, from
\* position i on.
RECURSIVE ComponentLoop(_, _, _, _, _, _)
ComponentLoop(order, i, popped, lk, components, warnings) ==
    IF i > Len(order)
    THEN [components |-> components, lookup |-> lk, warnings |-> warnings, raised |-> NoError]
    ELSE LET current_project == order[i] IN
         IF LookupHas(lk, current_project)
         THEN ComponentLoop(order, i + 1, popped, lk, components, warnings)
         ELSE LET got == GetSbomComponentJsonObject(current_project, popped[current_project])
              IN  IF got.raised /= NoError
                  THEN [components |-> components, lookup |-> lk,
                        warnings |-> warnings, raised |-> got.raised]
                  ELSE IF ProjectIdAlreadyDefined(got.component["bom-ref"], lk)
                  THEN [components |-> components, lookup |-> lk,
                        warnings |-> warnings \o got.warnings,
                        raised |-> DuplicateBomRefError(got.component["bom-ref"])]
                  ELSE ComponentLoop(order, i + 1, popped,
                                     Append(lk, <<current_project, got.component["bom-ref"]>>),
                                     Append(components, got.component),
                                     warnings \o got.warnings)

\* Mutant of ProjectWithDependencyProjects: the dependencies without the
\* project itself.
DependencyProjectsOnly(project) == GetAllDependencies(project)

\* The set that is iterated: the project itself along with all its dependencies.
ProjectWithDependencyProjects(project) == {project} \cup GetAllDependencies(project)

GetSbomComponentJsonObjectsForProjectAndDependencies(order, popped, lk) ==
    ComponentLoop(order, 1, popped, lk, <<>>, <<>>)

\* ---------------------------------------------------------------------
\* _GetSbomDependencyJsonObjects
\* ---------------------------------------------------------------------

\* The elements of a set in the order in which iteration_order lists them.
Iterate(S, iteration_order) == SelectSeq(iteration_order, LAMBDA x : x \in S)

\* Mutant of ListedDependencies: all the dependencies, flattened.
AllListedDependencies(project) == GetAllDependencies(project)

\* The projects whose ids a project's dependency entry lists.
ListedDependencies(project) == GetImmediateDependencies(project)

\* Mutant of GetSbomDependencyJsonObjects: no entry for a project without
\* dependencies.
GetSbomDependencyJsonObjectsSkippingLeaves(lk, iteration_order) ==
    LET with_dependencies == SelectSeq(lk, LAMBDA item : GetImmediateDependencies(item[1]) /= {})
    IN  [dependencies |->
             [i \in 1..Len(with_dependencies) |->
                 [ref |-> with_dependencies[i][2],
                  dependsOn |-> [k \in 1..Len(Iterate(GetImmediateDependencies(with_dependencies[i][1]), iteration_order)) |->
                                    LookupGet(lk, Iterate(GetImmediateDependencies(with_dependencies[i][1]), iteration_order)[k])]]],
         raised |-> NoError]

\* The dependency entries, one per item of the lookup; KeyError when an
\* immediate dependency is not a key of the lookup.
GetSbomDependencyJsonObjects(lk, iteration_order) ==
    LET Entry(i) ==
            LET immediate_dependencies == Iterate(ListedDependencies(lk[i][1]), iteration_order)
            IN  [ref |-> lk[i][2],
                 dependsOn |-> [k \in 1..Len(immediate_dependencies) |->
                                    LookupGet(lk, immediate_dependencies[k])]]
    IN  IF \E i \in 1..Len(lk) : \E d \in ListedDependencies(lk[i][1]) : ~LookupHas(lk, d)
        THEN [dependencies |-> <<>>, raised |-> [type |-> "KeyError"]]
        ELSE [dependencies |-> [i \in 1..Len(lk) |-> Entry(i)], raised |-> NoError]

\* ---------------------------------------------------------------------
\* Files
\* ---------------------------------------------------------------------

\* A file that does not exist.
NoFile == [state |-> "absent"]

\* A file whose content is not JSON (left behind by a write that failed).
CorruptFile == [state |-> "corrupt"]

\* Mutant of JsonFile: nothing is written.
NotWritten(json) == [state |-> "absent"]

\* A file holding a JSON object.
JsonFile(json) == [state |-> "json", json |-> json]

HasKey(object, key) == key \in DOMAIN object

\* Mutant of CustomSoftwareSbomFile: one file, whatever the target project.
SharedSbomFile(target_project) == ProjectOrder[1]

\* The custom software SBOM file of a target project,
\* <report directory>/<name of the target project>/CustomSoftwareSbom.json,
\* named by what tells it from the files of the other target projects.
CustomSoftwareSbomFile(target_project) == target_project

\* ---------------------------------------------------------------------
\* _MergeDependencyMetadataSbomIntoCustomSoftwareSbom
\* ---------------------------------------------------------------------

\* Mutant of IsFileTypeComponent: libraries are skipped like raw files.
IsFileOrLibraryTypeComponent(component) == component["type"] \in {"file", "library"}

\* Mutant of IsFileTypeComponent: the type is compared with another word.
IsFileTypeComponentMisspelled(component) == "File" = component["type"]

\* Whether a component of the dependency metadata is just a raw file.
IsFileTypeComponent(component) == "file" = component["type"]

\* Whether a unique id is among the ids tracked for the custom software SBOM.
UniqueIdAlreadyDefined(component_unique_id, defined) == component_unique_id \in defined

\* Mutant of TrackAddedUniqueId: the added id is not tracked.
ForgetAddedUniqueId(defined, component_unique_id) == defined

\* The ids tracked after a component was added.
TrackAddedUniqueId(defined, component_unique_id) == defined \cup {component_unique_id}

\* The loop over the components of the dependency metadata, from position i
\* on: the components of the custom software SBOM, the tracked ids, the ids
\* added, and the KeyError of a component without 'type' or 'bom-ref'.
RECURSIVE MergeComponentLoop(_, _, _, _, _)
MergeComponentLoop(from_metadata, i, components, defined, added) ==
    IF i > Len(from_metadata)
    THEN [components |-> components, added |-> added, raised |-> NoError]
    ELSE LET component == from_metadata[i] IN
         IF ~HasKey(component, "type")
         THEN [components |-> components, added |-> added, raised |-> [type |-> "KeyError"]]
         ELSE IF IsFileTypeComponent(component)
         THEN MergeComponentLoop(from_metadata, i + 1, components, defined, added)
         ELSE IF ~HasKey(component, "bom-ref")
         THEN [components |-> components, added |-> added, raised |-> [type |-> "KeyError"]]
         ELSE IF ~UniqueIdAlreadyDefined(component["bom-ref"], defined)
         THEN MergeComponentLoop(from_metadata, i + 1,
                                 Append(components, component),
                                 TrackAddedUniqueId(defined, component["bom-ref"]),
                                 Append(added, component["bom-ref"]))
         ELSE MergeComponentLoop(from_metadata, i + 1, components, defined, added)

\* Mutant of UniqueIdsToReport: the ids of all the components of the
\* dependency metadata, raw files included.
AllMetadataIds(added, from_metadata) ==
    LET with_id == SelectSeq(from_metadata, LAMBDA c : HasKey(c, "bom-ref"))
    IN  [i \in 1..Len(with_id) |-> with_id[i]["bom-ref"]]

\* Mutant of UniqueIdsToReport: the ids of all the components of the
\* dependency metadata that are not raw files, added by this merge or not.
AllNonFileMetadataIds(added, from_metadata) ==
    LET with_id == SelectSeq(from_metadata,
                             LAMBDA c : HasKey(c, "bom-ref") /\ HasKey(c, "type") /\ c["type"] /= "file")
    IN  [i \in 1..Len(with_id) |-> with_id[i]["bom-ref"]]

\* The ids that become direct dependencies of the Waf project: the ids of
\* the components that this merge added to the custom software SBOM.
UniqueIdsToReport(added, from_metadata) == added

\* Mutant of AppendDirectDependencies: the ids are only taken when dependsOn
\* lists nothing yet.
SetDirectDependenciesOnce(direct_dependencies, unique_ids, i) ==
    IF direct_dependencies /= <<>> THEN direct_dependencies ELSE unique_ids

\* Mutant of AppendDirectDependencies: dependsOn is replaced by the ids.
ReplaceDirectDependencies(direct_dependencies, unique_ids, i) == unique_ids

\* dependsOn with the ids appended that it does not list yet.
RECURSIVE AppendDirectDependencies(_, _, _)
AppendDirectDependencies(direct_dependencies, unique_ids, i) ==
    IF i > Len(unique_ids) THEN direct_dependencies
    ELSE AppendDirectDependencies(
             IF unique_ids[i] \in Range(direct_dependencies)
             THEN direct_dependencies
             ELSE Append(direct_dependencies, unique_ids[i]),
             unique_ids, i + 1)

\* Mutant of DependencyEntryIndex: the first dependency entry, whatever
\* its 'ref'.
FirstDependencyEntry(dependencies, project_unique_id) ==
    IF dependencies = <<>> THEN 0 ELSE 1

\* The index of the dependency entry that the lookup by 'ref' yields: in a
\* dict comprehension the last entry with a given 'ref' wins.
DependencyEntryIndex(dependencies, project_unique_id) ==
    LET matching == {k \in 1..Len(dependencies) : dependencies[k].ref = project_unique_id}
    IN  IF matching = {} THEN 0 ELSE CHOOSE k \in matching : \A m \in matching : m <= k

\* Everything Merge does before it writes: the JSON object to write, or the
\* exception that is caught.
MergedSbomJsonObject(project, lk, dependency_metadata_file, custom_software_sbom_file) ==
    IF dependency_metadata_file.state /= "json"
    THEN [json |-> <<>>, raised |-> [type |-> "ReadError"]]
    ELSE IF ~HasKey(dependency_metadata_file.json, "components")
    THEN [json |-> <<>>, raised |-> [type |-> "KeyError"]]
    ELSE IF custom_software_sbom_file.state /= "json"
    THEN [json |-> <<>>, raised |-> [type |-> "ReadError"]]
    ELSE
    LET custom_software_sbom_json_object == custom_software_sbom_file.json
        components_from_custom_software_sbom == custom_software_sbom_json_object.components
        initially_defined ==
            {components_from_custom_software_sbom[k]["bom-ref"] :
                k \in 1..Len(components_from_custom_software_sbom)}
        loop == MergeComponentLoop(dependency_metadata_file.json.components, 1,
                                   components_from_custom_software_sbom, initially_defined, <<>>)
        dependencies == custom_software_sbom_json_object.dependencies
        entry == IF LookupHas(lk, project)
                 THEN DependencyEntryIndex(dependencies, LookupGet(lk, project))
                 ELSE 0
    IN  IF loop.raised /= NoError
        THEN [json |-> <<>>, raised |-> loop.raised]
        ELSE IF entry = 0
        THEN [json |-> <<>>, raised |-> [type |-> "KeyError"]]
        ELSE [json |-> [custom_software_sbom_json_object EXCEPT
                          !.components = loop.components,
                          !.dependencies[entry].dependsOn =
                              AppendDirectDependencies(@, UniqueIdsToReport(loop.added, dependency_metadata_file.json.components), 1)],
              raised |-> NoError]

\* What a write that failed leaves behind: the file as it was, or a
\* truncated file.
FailedWriteOutcomes(file) == {file, CorruptFile}

\* Mutant of CaughtByExceptException: `except KeyError`.
CaughtByExceptKeyError(error) == error.type = "KeyError"

\* The exceptions that `except Exception` catches: all that can occur here.
CaughtByExceptException(error) == error.type \in {"KeyError", "ReadError", "WriteError", "WafError"}

\* Mutant of ExceptionOutcome: the file was opened for writing before the
\* exception, and is left truncated.
ExceptionOutcomeTruncating(error, file) ==
    [returned |-> FALSE, file |-> CorruptFile, caught |-> error, escaped |-> NoError]

\* The outcome of a try block that ended with an exception.
ExceptionOutcome(error, file) ==
    IF CaughtByExceptException(error)
    THEN [returned |-> FALSE, file |-> file, caught |-> error, escaped |-> NoError]
    ELSE [returned |-> FALSE, file |-> file, caught |-> NoError, escaped |-> error]

\* The outcomes of Merge: its return value, the file afterwards, the
\* exception that was caught and the exception that left the function.
MergeDependencyMetadataSbomIntoCustomSoftwareSbom(project, lk, metadata_file, sbom_file) ==
    LET dependency_metadata_file == metadata_file
        custom_software_sbom_file == sbom_file
        merged == MergedSbomJsonObject(project, lk, dependency_metadata_file,
                                       custom_software_sbom_file)
    IN  IF merged.raised /= NoError
        THEN {ExceptionOutcome(merged.raised, custom_software_sbom_file)}
        ELSE {[returned |-> TRUE, file |-> JsonFile(merged.json),
               caught |-> NoError, escaped |-> NoError]}
             \cup {ExceptionOutcome([type |-> "WriteError"], f) :
                   f \in FailedWriteOutcomes(custom_software_sbom_file)}

\* ---------------------------------------------------------------------
\* The dependency metadata SBOMs that Syft can produce
\* ---------------------------------------------------------------------

\* Components of a dependency metadata SBOM: a package, a raw file, a
\* package whose bom-ref is the name of a Waf project, and two malformed ones.
MetadataComponents ==
    {("bom-ref" :> "pkgA") @@ ("type" :> "library"),
     ("bom-ref" :> "fileX") @@ ("type" :> "file"),
     ("bom-ref" :> "T") @@ ("type" :> "library"),
     ("bom-ref" :> "pkgA"),
     ("type" :> "library")}

ComponentLists == UNION {[1..n -> MetadataComponents] : n \in 0..MaxFragLen}

\* The dependency metadata SBOM files: unreadable, without 'components', or
\* with a list of components.
DependencyMetadataFiles ==
    {CorruptFile, JsonFile([bomFormat |-> "CycloneDX"])}
    \cup {JsonFile([bomFormat |-> "CycloneDX", components |-> c]) : c \in ComponentLists}

\* The dependency metadata SBOM files with at most a given number of components.
DependencyMetadataFilesUpTo(longest) ==
    {CorruptFile, JsonFile([bomFormat |-> "CycloneDX"])}
    \cup {JsonFile([bomFormat |-> "CycloneDX", components |-> c]) :
             c \in UNION {[1..n -> MetadataComponents] : n \in 0..longest}}

\* ---------------------------------------------------------------------
\* Execute
\* ---------------------------------------------------------------------

\* What a step did: the operation, the project of the iteration, and for a
\* call of Merge the dependency metadata SBOM, the custom software SBOM file
\* before the call, the return value and the exception caught.
NoStep ==
    [op |-> "none", project |-> None, fragment |-> NoFile, before |-> NoFile,
     returned |-> FALSE, caught |-> NoError]

Step(op, project) == [NoStep EXCEPT !.op = op, !.project = project]

\* The SBOM JSON object of the initial custom software SBOM.
SbomJsonObject(components, dependencies, timestamp) ==
    [bomFormat |-> "CycloneDX",
     specVersion |-> "1.6",
     version |-> options.sbom_document_version,
     metadata |-> [timestamp |-> timestamp,
                   tools |-> <<[name |-> COMMAND_NAME, version |-> COMMAND_VERSION]>>],
     components |-> components,
     dependencies |-> dependencies]

\* Mutant of GenerateInitialCustomSoftwareSbom: an error of the assembly is
\* noted and Execute goes on with the loops over the lookup.
GenerateInitialCustomSoftwareSbomAndGoOn ==
    /\ pc = "generate"
    /\ LET target_project == TargetProjects[targetIndex] IN
       \E order \in Orderings({target_project} \cup GetAllDependencies(target_project)),
          popped \in PopChoices,
          iteration_order \in Orderings(Projects) :
          LET built == ComponentLoop(order, 1, popped, <<>>, <<>>, <<>>)
              edges == GetSbomDependencyJsonObjects(built.lookup, iteration_order)
              json == SbomJsonObject(built.components, edges.dependencies, now)
          IN  /\ lookup' = built.lookup
              /\ log' = built.warnings
              /\ last' = Step("generate", target_project)
              /\ raised' = built.raised
              /\ IF built.raised /= NoError
                 THEN UNCHANGED files
                 ELSE files' = [files EXCEPT ![target_project] = [state |-> "json", json |-> json]]
    /\ pc' = "dot_net"
    /\ loopIndex' = 1
    /\ now' = now + 1
    /\ UNCHANGED <<uses, tgen, options, TargetProjects, targetIndex, resolved, archived,
                   calls, suspended, fragments>>

\* _GenerateInitialCustomSoftwareSbom for the current target project, with a
\* fresh lookup: the components, the dependency entries, the write.
GenerateInitialCustomSoftwareSbom ==
    /\ pc = "generate"
    /\ LET target_project == TargetProjects[targetIndex] IN
       \E order \in Orderings(ProjectWithDependencyProjects(target_project)),
          popped \in PopChoices,
          iteration_order \in Orderings(Projects),
          written \in BOOLEAN :
          LET built == GetSbomComponentJsonObjectsForProjectAndDependencies(order, popped, <<>>)
              edges == GetSbomDependencyJsonObjects(built.lookup, iteration_order)
              json == SbomJsonObject(built.components, edges.dependencies, now)
          IN  /\ lookup' = built.lookup
              /\ log' = built.warnings
              /\ last' = Step("generate", target_project)
              /\ IF built.raised /= NoError
                 THEN /\ raised' = built.raised
                      /\ pc' = "raised"
                      /\ UNCHANGED files
                 ELSE IF edges.raised /= NoError
                 THEN /\ raised' = edges.raised
                      /\ pc' = "raised"
                      /\ UNCHANGED files
                 ELSE IF ~written
                 THEN /\ raised' = [type |-> "WriteError"]
                      /\ pc' = "raised"
                      /\ \E f \in FailedWriteOutcomes(files[CustomSoftwareSbomFile(target_project)]) :
                            files' = [files EXCEPT ![CustomSoftwareSbomFile(target_project)] = f]
                 ELSE /\ raised' = raised
                      /\ pc' = "dot_net"
                      /\ files' = [files EXCEPT ![CustomSoftwareSbomFile(target_project)] = JsonFile(json)]
    /\ loopIndex' = 1
    /\ now' = now + 1
    /\ UNCHANGED <<uses, tgen, options, TargetProjects, targetIndex, resolved, archived,
                   calls, suspended, fragments>>

\* The position after one iteration of a loop over the keys of the lookup.
AfterIteration(next_pc) ==
    IF loopIndex < Len(lookup)
    THEN /\ loopIndex' = loopIndex + 1
         /\ pc' = pc
    ELSE /\ loopIndex' = 1
         /\ pc' = next_pc

\* The call of Merge in a loop iteration, for a dependency metadata SBOM
\* that Syft produced.
MergeIteration(project) ==
    LET target_project == TargetProjects[targetIndex] IN
    \E dependency_metadata_sbom_file \in DependencyMetadataFilesUpTo(fragments) :
    \E outcome \in MergeDependencyMetadataSbomIntoCustomSoftwareSbom(
                       project, lookup, dependency_metadata_sbom_file, files[CustomSoftwareSbomFile(target_project)]) :
        /\ files' = [files EXCEPT ![CustomSoftwareSbomFile(target_project)] = outcome.file]
        /\ last' = [op |-> "merge", project |-> project,
                    fragment |-> dependency_metadata_sbom_file,
                    before |-> files[CustomSoftwareSbomFile(target_project)],
                    returned |-> outcome.returned, caught |-> outcome.caught]
        /\ log' = IF outcome.returned
                  THEN <<[level |-> "info", about |-> "merged", project |-> project]>>
                  ELSE <<[level |-> "warn", about |-> "merge failed", project |-> project]>>
        /\ raised' = outcome.escaped

\* An iteration that warns and then goes on without `continue`, to fail on
\* the file that is not there.
WarnIterationWithoutContinue(project, about) ==
    /\ about \in {"no build folder", "no lock file", "no metadata attribute",
                  "no metadata folder", "no metadata sbom"}
    /\ last' = Step("warn", project)
    /\ log' = <<[level |-> "warn", about |-> about, project |-> project]>>
    /\ raised' = [type |-> "AttributeError"]
    /\ UNCHANGED files

\* An iteration that ends with a warning and `continue`.
WarnIteration(project, about) ==
    /\ about \in {"no build folder", "no lock file", "no metadata attribute",
                  "no metadata folder", "no metadata sbom"}
    /\ last' = Step("warn", project)
    /\ log' = <<[level |-> "warn", about |-> about, project |-> project]>>
    /\ UNCHANGED <<files, raised>>

\* An iteration for a project that is not concerned.
SkipIteration(project) ==
    /\ last' = Step("skip", project)
    /\ log' = <<>>
    /\ UNCHANGED <<files, raised>>

\* Whether an iteration left an exception to propagate out of Execute.
Propagate(next_pc) ==
    IF raised' /= NoError
    THEN pc' = "raised" /\ loopIndex' = loopIndex
    ELSE AfterIteration(next_pc)

\* One iteration of the loop of _IncludeDotNetDependenciesInCustomSoftwareSbom.
IncludeDotNetDependenciesInCustomSoftwareSbom ==
    /\ pc = "dot_net"
    /\ LET project == lookup[loopIndex][1]
           dependency_is_dot_net == GetFeatures(project) \cap DOT_NET_FEATURE_NAMES /= {}
       IN  IF ~dependency_is_dot_net
           THEN SkipIteration(project)
           ELSE \/ \E about \in {"no build folder", "no lock file", "no metadata sbom"} :
                      WarnIteration(project, about)
                \/ MergeIteration(project)
    /\ Propagate("javascript")
    /\ now' = now + 1
    /\ UNCHANGED <<uses, tgen, options, TargetProjects, targetIndex, lookup, resolved, archived,
                   calls, suspended, fragments>>

\* One iteration of the loop of _IncludeJavaScriptDependenciesInCustomSoftwareSbom.
IncludeJavaScriptDependenciesInCustomSoftwareSbom ==
    /\ pc = "javascript"
    /\ LET dependency_project == lookup[loopIndex][1]
           is_javascript_project == JAVASCRIPT_FEATURE_NAME \in GetFeatures(dependency_project)
           dependency_metadata_is_expected == is_javascript_project /\ IsThirdParty(dependency_project)
       IN  IF ~dependency_metadata_is_expected
           THEN SkipIteration(dependency_project)
           ELSE \/ \E about \in {"no metadata attribute", "no metadata folder", "no metadata sbom"} :
                      WarnIteration(dependency_project, about)
                \/ MergeIteration(dependency_project)
    /\ Propagate("container_image")
    /\ now' = now + 1
    /\ UNCHANGED <<uses, tgen, options, TargetProjects, targetIndex, lookup, resolved, archived,
                   calls, suspended, fragments>>

\* Syft.GenerateSbomForContainerImage writes the sibling container image
\* SBOM; then the loop of Execute goes on to the next target project.
GenerateSbomForContainerImage ==
    /\ pc = "container_image"
    /\ last' = Step("container_image", TargetProjects[targetIndex])
    /\ log' = <<>>
    /\ IF targetIndex < Len(TargetProjects)
       THEN targetIndex' = targetIndex + 1 /\ pc' = "generate"
       ELSE targetIndex' = targetIndex /\ pc' = "done"
    /\ now' = now + 1
    /\ UNCHANGED <<uses, tgen, options, TargetProjects, loopIndex, lookup, files, raised, resolved,
                   archived, calls, suspended, fragments>>

\* ---------------------------------------------------------------------
\* The project graphs of the model
\* ---------------------------------------------------------------------

TaskGenerator(features, third_party, library, default_version) ==
    [features |-> features, third_party |-> third_party, library |-> library,
     default_version |-> default_version,
     version_number |-> None, license_name |-> None,
     sbom_package_url |-> None, sbom_unique_id |-> None]

FirstPartyApplication == TaskGenerator({"cxxprogram"}, FALSE, FALSE, FALSE)

DotNetLibrary == TaskGenerator({"dot_net"}, FALSE, TRUE, FALSE)

ThirdPartyJavaScript == TaskGenerator({"javascript"}, TRUE, TRUE, FALSE)

DefaultVersionLibrary == TaskGenerator({"cxxstlib"}, TRUE, TRUE, TRUE)

VersionedLibrary ==
    [TaskGenerator({"cxxstlib"}, TRUE, TRUE, FALSE) EXCEPT
        !.version_number = "1.2", !.license_name = "MIT", !.sbom_package_url = "pkg:generic/T@1.2"]

\* A task generator with a manually set unique id.
Custom(task_generator, id) == [task_generator EXCEPT !.sbom_unique_id = id]

\* The task generators of the projects: a .NET root and a third-party
\* JavaScript library; a default version project and the versioned project
\* it stands for; two projects with the same manual unique id; a project
\* whose manual unique id is the name of another project.
GraphTaskGenerators ==
    {[R |-> DotNetLibrary, A |-> ThirdPartyJavaScript, T |-> VersionedLibrary],
     [R |-> FirstPartyApplication, A |-> DefaultVersionLibrary, T |-> VersionedLibrary],
     [R |-> FirstPartyApplication, A |-> Custom(ThirdPartyJavaScript, "custom"),
      T |-> Custom(ThirdPartyJavaScript, "custom")],
     [R |-> FirstPartyApplication, A |-> ThirdPartyJavaScript,
      T |-> Custom(ThirdPartyJavaScript, "A")]}

\* Acyclic graphs: a project uses only projects after it in ProjectOrder.
Position(project) == CHOOSE i \in 1..Len(ProjectOrder) : ProjectOrder[i] = project

Graphs == {u \in [Projects -> SUBSET Projects] :
              \A p \in Projects : \A d \in u[p] : Position(p) < Position(d)}

\* A default version project references a single versioned project.
DefaultVersionProjectsReferenceOne(u, t) ==
    \A p \in Projects : t[p].default_version => Cardinality(u[p]) = 1

\* The projects given as targets: those that can have dependencies.
TargetCandidates == {"R", "A"}

\* The lists of target projects: distinct projects, a project after the
\* projects it can use.
TargetLists ==
    {s \in UNION {[1..n -> TargetCandidates] : n \in 1..MaxTargets} :
        \A i, j \in 1..Len(s) : i < j => Position(s[i]) > Position(s[j])}

\* The callers that can run Merge side by side.
Callers == {"first", "second"}

\* A call of Merge that has not started.
IdleCall ==
    [pc |-> "idle", project |-> None, fragment |-> NoFile, json |-> <<>>,
     returned |-> FALSE, caught |-> NoError, readAt |-> 0, wroteAt |-> 0]

\* No second run of Execute.
NoRun == [pc |-> "none"]

\* No call of _GetSbomComponentJsonObject on its own.
NoCall == [project |-> None, inherited |-> None, component |-> <<>>, warnings |-> <<>>, raised |-> NoError]

Init ==
    /\ uses \in Graphs
    /\ tgen \in GraphTaskGenerators
    /\ DefaultVersionProjectsReferenceOne(uses, tgen)
    /\ options = [sbom_document_version |-> 1]
    /\ TargetProjects \in TargetLists
    /\ pc = "generate"
    /\ targetIndex = 1
    /\ loopIndex = 1
    /\ lookup = <<>>
    /\ files = [p \in Projects |-> NoFile]
    /\ now = 0
    /\ log = <<>>
    /\ last = NoStep
    /\ raised = NoError
    /\ resolved = NoCall
    /\ archived = [p \in Projects |-> NoFile]
    /\ calls = [k \in Callers |-> IdleCall]
    /\ suspended = NoRun
    /\ fragments = MaxFragLen

Next ==
    \/ GenerateInitialCustomSoftwareSbom
    \/ IncludeDotNetDependenciesInCustomSoftwareSbom
    \/ IncludeJavaScriptDependenciesInCustomSoftwareSbom
    \/ GenerateSbomForContainerImage

Spec == Init /\ [][Next]_vars

\* ---------------------------------------------------------------------
\* _GetSbomComponentJsonObject on its own, for any attributes of a project
\* A and of the projects R and T that it may reference
\* ---------------------------------------------------------------------

\* The values an attribute can have: not set, or set.
Optional(value) == {None, value}

\* The values a string attribute can have: not set, set to the empty
\* string, or set.
OptionalString(value) == {None, "", value}

ResolvedTaskGenerators ==
    [R : {FirstPartyApplication},
     A : [features : {{"cxxstlib"}}, third_party : BOOLEAN, library : BOOLEAN,
          default_version : BOOLEAN,
          version_number : Optional("1.0"), license_name : Optional("Apache-2.0"),
          sbom_package_url : OptionalString("pkg:npm/a@1.0"), sbom_unique_id : Optional("custom")],
     T : [features : {{"cxxstlib"}}, third_party : BOOLEAN, library : {TRUE},
          default_version : {FALSE},
          version_number : Optional("1.2"), license_name : Optional("MIT"),
          sbom_package_url : OptionalString("pkg:generic/T@1.2"), sbom_unique_id : {None}]]

InitResolve ==
    /\ uses \in {u \in Graphs : u["R"] = {} /\ u["T"] = {}}
    /\ tgen \in ResolvedTaskGenerators
    /\ options = [sbom_document_version |-> 1]
    /\ TargetProjects = <<>>
    /\ pc = "resolve"
    /\ targetIndex = 1
    /\ loopIndex = 1
    /\ lookup = <<>>
    /\ files = [p \in Projects |-> NoFile]
    /\ now = 0
    /\ log = <<>>
    /\ last = NoStep
    /\ raised = NoError
    /\ resolved = NoCall
    /\ archived = [p \in Projects |-> NoFile]
    /\ calls = [k \in Callers |-> IdleCall]
    /\ suspended = NoRun
    /\ fragments = MaxFragLen

\* A call of _GetSbomComponentJsonObject for a project.
ResolveProject ==
    /\ pc = "resolve"
    /\ \E project \in Projects : \E popped \in PopOutcomes(project) :
          LET got == GetSbomComponentJsonObject(project, popped)
          IN  /\ resolved' = [project |-> project, inherited |-> popped,
                              component |-> got.component, warnings |-> got.warnings,
                              raised |-> got.raised]
              /\ log' = got.warnings
    /\ UNCHANGED <<uses, tgen, options, TargetProjects, pc, targetIndex, loopIndex, lookup,
                   files, now, last, raised, archived, calls, suspended, fragments>>

NextResolve == ResolveProject

SpecResolve == InitResolve /\ [][NextResolve]_vars

\* ---------------------------------------------------------------------
\* Properties
\* ---------------------------------------------------------------------

\* The target projects whose custom software SBOM file holds a document.
Persisted == {p \in Projects : files[p].state = "json"}

BomRefs(components) == {components[i]["bom-ref"] : i \in 1..Len(components)}

Occurrences(sequence, Matches(_)) == Cardinality({i \in 1..Len(sequence) : Matches(sequence[i])})

\* The ids listed by the dependency entries with a given ref.
DependsOn(json, ref) ==
    UNION {Range(json.dependencies[k].dependsOn) :
              k \in {m \in 1..Len(json.dependencies) : json.dependencies[m].ref = ref}}

\* The initial assembly of the current target project has just succeeded.
InitialAssemblyDone == last.op = "generate" /\ pc = "dot_net"

\* The last step was a call of Merge for the current target project.
MergeDone == last.op = "merge"

\* The document of the current target project.
TargetJson == files[TargetProjects[targetIndex]].json

\* The unique id that a project resolves to.
ResolvedUniqueId(project) ==
    IF tgen[project].sbom_unique_id /= None THEN tgen[project].sbom_unique_id ELSE project

\* The bom-refs of the well-formed components of a dependency metadata SBOM
\* that are not raw files.
NonFileIds(fragment) ==
    IF fragment.state = "json" /\ HasKey(fragment.json, "components")
    THEN {fragment.json.components[i]["bom-ref"] :
             i \in {k \in 1..Len(fragment.json.components) :
                       /\ HasKey(fragment.json.components[k], "type")
                       /\ HasKey(fragment.json.components[k], "bom-ref")
                       /\ fragment.json.components[k]["type"] /= "file"}}
    ELSE {}

\* C1: the document of the initial assembly has exactly one dependency
\* entry per component: every id occurs as often as a 'ref' as it occurs as
\* a 'bom-ref', which is once, and the two lists are equally long.
C1_OneDependencyEntryPerComponent ==
    InitialAssemblyDone =>
        /\ Len(TargetJson.dependencies) = Len(TargetJson.components)
        /\ \A id \in BomRefs(TargetJson.components)
                     \cup {TargetJson.dependencies[k].ref : k \in 1..Len(TargetJson.dependencies)} :
              /\ Occurrences(TargetJson.components, LAMBDA c : c["bom-ref"] = id) = 1
              /\ Occurrences(TargetJson.dependencies, LAMBDA d : d.ref = id) = 1

\* C1 witness: an initial document with the three projects, one of them
\* without dependencies and one with two.
C1_Witness ==
    /\ InitialAssemblyDone
    /\ Len(TargetJson.components) = 3
    /\ \E k \in 1..3 : TargetJson.dependencies[k].dependsOn = <<>>
    /\ \E k \in 1..3 : Len(TargetJson.dependencies[k].dependsOn) = 2

\* The merges of the i-th target project have all completed.
MergesCompleted(i) ==
    \/ i < targetIndex
    \/ i = targetIndex /\ pc \in {"container_image", "done"}

\* C2: after all merges for a target project, every component id of its
\* document, also of a component appended from a dependency metadata SBOM,
\* has exactly one dependency entry whose 'ref' is that id.
C2_EveryComponentHasOneDependencyEntry ==
    \A i \in 1..Len(TargetProjects) :
        (MergesCompleted(i) /\ TargetProjects[i] \in Persisted) =>
            LET json == files[TargetProjects[i]].json
            IN  \A id \in BomRefs(json.components) :
                    Occurrences(json.dependencies, LAMBDA d : d.ref = id) = 1

\* C3: in every persisted document every id listed in a dependsOn is the
\* bom-ref of a component of the same document.
C3_NoDanglingDependency ==
    \A p \in Persisted :
        \A k \in 1..Len(files[p].json.dependencies) :
            Range(files[p].json.dependencies[k].dependsOn) \subseteq BomRefs(files[p].json.components)

\* C3 witness: a successful merge has appended an id to the dependsOn of
\* the owning project.
C3_Witness ==
    /\ MergeDone /\ last.returned
    /\ "pkgA" \in DependsOn(TargetJson, LookupGet(lookup, last.project))
    /\ "pkgA" \notin BomRefs(last.before.json.components)

\* C4: in every persisted document no two components share a bom-ref.
C4_UniqueBomRefs ==
    \A p \in Persisted :
        \A i, j \in 1..Len(files[p].json.components) :
            files[p].json.components[i]["bom-ref"] = files[p].json.components[j]["bom-ref"] => i = j

\* C4 witness: a successful merge of a dependency metadata SBOM that lists
\* one new id twice, and one of an SBOM that reuses the id of a Waf project.
C4_Witness ==
    /\ MergeDone /\ last.returned
    /\ LET from_metadata == last.fragment.json.components
       IN  /\ Len(from_metadata) = 2
           /\ \/ /\ from_metadata[1] = from_metadata[2]
                 /\ from_metadata[1]["bom-ref"] = "pkgA"
                 /\ "pkgA" \notin BomRefs(last.before.json.components)
              \/ /\ from_metadata[1]["bom-ref"] = "T"
                 /\ "T" \in LookupValues(lookup)

\* Two distinct projects among a project and its dependencies resolve to
\* the same unique id.
CollidingIds(project) ==
    {ResolvedUniqueId(p) : p \in {q \in ProjectWithDependencyProjects(project) :
        \E r \in ProjectWithDependencyProjects(project) :
            r /= q /\ ResolvedUniqueId(r) = ResolvedUniqueId(q)}}

\* C5: when two projects of a target resolve to the same id, its assembly
\* ends with the duplicate bom-ref error naming a colliding id, Execute is
\* left, and no document is written for the target.
C5_CollisionAborts ==
    \A i \in 1..Len(TargetProjects) :
        (CollidingIds(TargetProjects[i]) /= {} /\ (i < targetIndex \/ (i = targetIndex /\ pc /= "generate"))) =>
            /\ i = targetIndex
            /\ pc = "raised"
            /\ raised.type = "WafError"
            /\ raised.duplicate \in CollidingIds(TargetProjects[i])
            /\ files[TargetProjects[i]] = NoFile

\* C5 witness: the error is raised for the second target project, after a
\* component was already resolved for it.
C5_Witness ==
    /\ pc = "raised"
    /\ raised.type = "WafError"
    /\ targetIndex = 2
    /\ Len(lookup) = 2

FileIds == {c["bom-ref"] : c \in {m \in MetadataComponents : HasKey(m, "type") /\ HasKey(m, "bom-ref") /\ m["type"] = "file"}}

\* C7: no persisted document has a component of type "file", and no
\* dependsOn lists the id of a raw file component.
C7_NoFileComponent ==
    \A p \in Persisted :
        /\ \A i \in 1..Len(files[p].json.components) : files[p].json.components[i]["type"] /= "file"
        /\ \A k \in 1..Len(files[p].json.dependencies) :
              Range(files[p].json.dependencies[k].dependsOn) \cap FileIds = {}

\* C7 witness: a successful merge of an SBOM with a raw file and a new package.
C7_Witness ==
    /\ MergeDone /\ last.returned
    /\ \E i \in 1..Len(last.fragment.json.components) : last.fragment.json.components[i]["type"] = "file"
    /\ Len(TargetJson.components) = Len(last.before.json.components) + 1

\* C8: after a successful merge for an owning project, every non-file
\* component of the dependency metadata SBOM is listed in the dependsOn of
\* the owning project, also when its id was in the document before.
C8_EveryFragmentComponentIsDirectDependency ==
    (MergeDone /\ last.returned) =>
        NonFileIds(last.fragment) \subseteq DependsOn(TargetJson, LookupGet(lookup, last.project))

\* C9: a call of Merge lets no exception out: Execute goes on with the
\* next iteration, and a call that caught an exception returned False.
\* This holds for every project as the owning project, also for one that
\* is not a key of the lookup.
C9_MergeFailureIsCaught ==
    MergeDone =>
        /\ raised = NoError
        /\ pc \in {"dot_net", "javascript", "container_image"}
        /\ last.returned <=> last.caught = NoError
        /\ \A project \in Projects :
              \A outcome \in MergeDependencyMetadataSbomIntoCustomSoftwareSbom(
                                 project, lookup, last.fragment, last.before) :
                  /\ outcome.escaped = NoError
                  /\ outcome.returned <=> outcome.caught = NoError

\* C9 witness: the dependency metadata SBOM was unreadable, Merge returned
\* False, and Execute goes on to the next target project.
C9_Witness ==
    /\ MergeDone
    /\ ~last.returned
    /\ last.caught.type = "ReadError"
    /\ pc = "container_image"
    /\ targetIndex < Len(TargetProjects)

\* The call was for a default version project without version, license and
\* package URL that references exactly one project, which has all three.
InheritsAll ==
    /\ resolved.project \in Projects
    /\ resolved.inherited \in Projects
    /\ tgen[resolved.project].default_version
    /\ tgen[resolved.project].version_number = None
    /\ tgen[resolved.project].license_name = None
    /\ tgen[resolved.project].sbom_package_url = None
    /\ uses[resolved.project] = {resolved.inherited}
    /\ tgen[resolved.inherited].version_number /= None
    /\ tgen[resolved.inherited].license_name /= None
    /\ tgen[resolved.inherited].sbom_package_url /= None

\* C10: the component of such a default version project has the version,
\* the license name and the purl of the component of the referenced
\* project, and no warning is logged for it.
C10_DefaultVersionInherits ==
    InheritsAll =>
        LET referenced == GetSbomComponentJsonObject(resolved.inherited, None).component
        IN  /\ resolved.raised = NoError
            /\ resolved.component["version"] = tgen[resolved.inherited].version_number
            /\ resolved.component["version"] = referenced["version"]
            /\ resolved.component["licenses"] = referenced["licenses"]
            /\ resolved.component["licenses"][1].license.name = tgen[resolved.inherited].license_name
            /\ HasKey(resolved.component, "purl")
            /\ resolved.component["purl"] = referenced["purl"]
            /\ resolved.component["purl"] = tgen[resolved.inherited].sbom_package_url
            /\ resolved.warnings = <<>>

\* C10 witness: such a call for a third-party default version project.
C10_Witness ==
    /\ InheritsAll
    /\ tgen[resolved.project].third_party
    /\ resolved.component["version"] = "1.2"

\* A root project whose only dependency is a third-party project that has
\* no dependencies, no version and no license.
OnlyDependencyIsBareThirdParty(root, dependency) ==
    /\ uses[root] = {dependency}
    /\ uses[dependency] = {}
    /\ tgen[dependency].third_party
    /\ ~tgen[dependency].default_version
    /\ tgen[dependency].version_number = None
    /\ tgen[dependency].license_name = None

\* The components of a document with a given name.
ComponentsNamed(json, name) ==
    SelectSeq(json.components, LAMBDA c : c["name"] = name)

\* C11: the initial document of such a root project has exactly the two
\* components of the root and of the third-party project; the latter has the
\* version "Unknown" and the license "Unknown Third-Party License"; the
\* dependency entry of the root lists the id of the third-party project, and
\* the entry of the third-party project lists nothing.
C11_RootWithBareThirdParty ==
    \A dependency \in Projects :
        (/\ InitialAssemblyDone
         /\ OnlyDependencyIsBareThirdParty(TargetProjects[targetIndex], dependency)) =>
            LET root == TargetProjects[targetIndex]
                of_root == ComponentsNamed(TargetJson, root)
                of_dependency == ComponentsNamed(TargetJson, dependency)
            IN  /\ Len(TargetJson.components) = 2
                /\ Len(of_root) = 1
                /\ Len(of_dependency) = 1
                /\ of_dependency[1]["version"] = "Unknown"
                /\ of_dependency[1]["licenses"] = <<[license |-> [name |-> "Unknown Third-Party License"]]>>
                /\ Len(TargetJson.dependencies) = 2
                /\ \E k \in 1..2 :
                      /\ TargetJson.dependencies[k].ref = of_root[1]["bom-ref"]
                      /\ TargetJson.dependencies[k].dependsOn = <<of_dependency[1]["bom-ref"]>>
                /\ \E k \in 1..2 :
                      /\ TargetJson.dependencies[k].ref = of_dependency[1]["bom-ref"]
                      /\ TargetJson.dependencies[k].dependsOn = <<>>

\* C11 witness: the initial document of such a root project was written,
\* the third-party project having a manually set unique id.
C11_Witness ==
    /\ InitialAssemblyDone
    /\ \E dependency \in Projects :
          /\ OnlyDependencyIsBareThirdParty(TargetProjects[targetIndex], dependency)
          /\ tgen[dependency].sbom_unique_id /= None
          /\ Len(ComponentsNamed(TargetJson, dependency)) = 1

\* ---------------------------------------------------------------------
\* The initial custom software SBOM assembled again for an unchanged graph
\* after --sbom_document_version was bumped
\* ---------------------------------------------------------------------

\* The revised document version given on the command line of the second run.
BumpedDocumentVersion == options.sbom_document_version + 1

\* The second run: the documents of the first run are kept aside, and the
\* command is started again with the bumped document version.
BumpDocumentVersion ==
    /\ pc = "dot_net"
    /\ last.op = "generate"
    /\ options.sbom_document_version = 1
    /\ options' = [options EXCEPT !.sbom_document_version = BumpedDocumentVersion]
    /\ archived' = files
    /\ pc' = "generate"
    /\ targetIndex' = 1
    /\ loopIndex' = 1
    /\ lookup' = <<>>
    /\ last' = Step("bump", TargetProjects[targetIndex])
    /\ log' = <<>>
    /\ now' = now + 1
    /\ UNCHANGED <<uses, tgen, TargetProjects, files, raised, resolved, calls, suspended, fragments>>

InitBump ==
    /\ Init
    /\ Len(TargetProjects) = 1

NextBump ==
    \/ GenerateInitialCustomSoftwareSbom
    \/ BumpDocumentVersion

SpecBump == InitBump /\ [][NextBump]_vars

\* The dependency entries of a document, each with the set of the ids it lists.
DependencyContent(json) ==
    {[ref |-> json.dependencies[k].ref, dependsOn |-> Range(json.dependencies[k].dependsOn)] :
        k \in 1..Len(json.dependencies)}

\* The second assembly has just succeeded.
AssembledAgain ==
    /\ InitialAssemblyDone
    /\ archived[TargetProjects[targetIndex]].state = "json"

\* C12: the document assembled with document version 2 for an unchanged
\* graph differs from the one assembled with document version 1 in
\* 'version' and in 'metadata.timestamp' only: the other header fields are
\* equal, and the two documents hold the same components and the same
\* dependency entries, each listing the same ids (the position of an item
\* in its array follows the iteration order of a set, which carries no
\* content).
C12_BumpChangesVersionAndTimestampOnly ==
    AssembledAgain =>
        LET first == archived[TargetProjects[targetIndex]].json
            second == TargetJson
        IN  /\ first.version = 1
            /\ second.version = 2
            /\ first.metadata.timestamp /= second.metadata.timestamp
            /\ DOMAIN first = DOMAIN second
            /\ DOMAIN first.metadata = DOMAIN second.metadata
            /\ \A key \in DOMAIN first \ {"version", "metadata", "components", "dependencies"} :
                  first[key] = second[key]
            /\ \A key \in DOMAIN first.metadata \ {"timestamp"} :
                  first.metadata[key] = second.metadata[key]
            /\ Len(first.components) = Len(second.components)
            /\ Range(first.components) = Range(second.components)
            /\ Len(first.dependencies) = Len(second.dependencies)
            /\ DependencyContent(first) = DependencyContent(second)
            /\ \A i, j \in 1..Len(first.dependencies) :
                  first.dependencies[i].ref = second.dependencies[j].ref =>
                      Len(first.dependencies[i].dependsOn) = Len(second.dependencies[j].dependsOn)

\* C12 witness: a document of three components, one of a first-party
\* project with the product version, was assembled a second time, its
\* components in another order.
C12_Witness ==
    /\ AssembledAgain
    /\ Len(TargetJson.components) = 3
    /\ \E i \in 1..3 : TargetJson.components[i]["version"] = product_version
    /\ TargetJson.components /= archived[TargetProjects[targetIndex]].json.components

\* The document of the current target project holds a component and a
\* dependency entry for every project of the lookup, and the lookup holds
\* the target project and all its dependencies.
FullyAssembled(file) ==
    /\ file.state /= "absent"
    /\ {lookup[i][1] : i \in 1..Len(lookup)} = ProjectWithDependencyProjects(TargetProjects[targetIndex])
    /\ file.state = "json" =>
          \A i \in 1..Len(lookup) :
              /\ lookup[i][2] \in BomRefs(file.json.components)
              /\ \E k \in 1..Len(file.json.dependencies) : file.json.dependencies[k].ref = lookup[i][2]

\* C13: every call of Merge is made from one of the two loops over the
\* lookup of the current target project, after _GenerateInitialCustomSoftwareSbom
\* has returned with the document written, and it reads the file exactly as
\* the step before it left it: the initial assembly, or the call of Merge
\* before it, which has returned.  No call of Merge is made once the loops
\* of the target project are over.
C13_StrictlySequential ==
    [][last'.op = "merge" =>
          /\ pc \in {"dot_net", "javascript"}
          /\ targetIndex' = targetIndex
          /\ last.op \in {"generate", "merge", "warn", "skip"}
          /\ last.op = "generate" => last.project = TargetProjects[targetIndex]
          /\ FullyAssembled(files[TargetProjects[targetIndex]])
          /\ last'.before = files[TargetProjects[targetIndex]]
          /\ last.op = "merge" => files[TargetProjects[targetIndex]] \in
                {outcome.file : outcome \in MergeDependencyMetadataSbomIntoCustomSoftwareSbom(
                                                last.project, lookup, last.fragment, last.before)}
          /\ lookup' = lookup]_vars

\* C13 witness: a second call of Merge for a target project has succeeded,
\* on the document that the first call had extended.
C13_Witness ==
    /\ MergeDone /\ last.returned
    /\ last.project /= TargetProjects[targetIndex]
    /\ "pkgA" \in BomRefs(last.before.json.components)
    /\ Len(TargetJson.components) = Len(last.before.json.components) + 1

\* ---------------------------------------------------------------------
\* Calls of _MergeDependencyMetadataSbomIntoCustomSoftwareSbom against one
\* custom software SBOM file that run side by side: each call reads the file
\* (read_json), changes the JSON object in memory, and writes it (write_json)
\* ---------------------------------------------------------------------

\* Longest 'components' array of a dependency metadata SBOM merged by a
\* call that runs side by side with another.
MaxOverlapFragLen == 1

\* The projects for which one of the two loops calls Merge.
ProjectsToMerge ==
    {project \in Range(LookupKeys(lookup)) :
        \/ GetFeatures(project) \cap DOT_NET_FEATURE_NAMES /= {}
        \/ JAVASCRIPT_FEATURE_NAME \in GetFeatures(project) /\ IsThirdParty(project)}

\* A call of Merge up to the point where it has the JSON object to write in
\* memory: the two files are read, the components are added, the ids are
\* reported.  A failure on the way is caught and ends the call.
StartMerge(caller) ==
    /\ pc = "dot_net"
    /\ calls[caller].pc = "idle"
    /\ LET custom_software_sbom_file == files[CustomSoftwareSbomFile(TargetProjects[targetIndex])] IN
       \E project \in ProjectsToMerge,
          dependency_metadata_file \in DependencyMetadataFilesUpTo(fragments) :
          LET merged == MergedSbomJsonObject(project, lookup, dependency_metadata_file,
                                             custom_software_sbom_file)
              started == [IdleCall EXCEPT !.project = project,
                                          !.fragment = dependency_metadata_file,
                                          !.readAt = now]
          IN  calls' = [calls EXCEPT ![caller] =
                  IF merged.raised /= NoError
                  THEN [started EXCEPT
                           !.pc = "returned",
                           !.returned = ExceptionOutcome(merged.raised, custom_software_sbom_file).returned,
                           !.caught = ExceptionOutcome(merged.raised, custom_software_sbom_file).caught]
                  ELSE [started EXCEPT !.pc = "read", !.json = merged.json]]
    /\ now' = now + 1
    /\ UNCHANGED <<uses, tgen, options, TargetProjects, pc, targetIndex, loopIndex, lookup,
                   files, log, last, raised, resolved, archived, suspended, fragments>>

\* The rest of the call: the JSON object held in memory is written over the file.
FinishMerge(caller) ==
    /\ calls[caller].pc = "read"
    /\ LET target_project == TargetProjects[targetIndex] IN
       \/ /\ files' = [files EXCEPT ![CustomSoftwareSbomFile(target_project)] = JsonFile(calls[caller].json)]
          /\ calls' = [calls EXCEPT ![caller].pc = "returned",
                                    ![caller].returned = TRUE,
                                    ![caller].wroteAt = now]
       \/ \E outcome \in {ExceptionOutcome([type |-> "WriteError"], f) :
                             f \in FailedWriteOutcomes(files[CustomSoftwareSbomFile(target_project)])} :
             /\ files' = [files EXCEPT ![CustomSoftwareSbomFile(target_project)] = outcome.file]
             /\ calls' = [calls EXCEPT ![caller].pc = "returned",
                                       ![caller].returned = outcome.returned,
                                       ![caller].caught = outcome.caught,
                                       ![caller].wroteAt = now]
    /\ now' = now + 1
    /\ UNCHANGED <<uses, tgen, options, TargetProjects, pc, targetIndex, loopIndex, lookup,
                   log, last, raised, resolved, archived, suspended, fragments>>

\* A .NET project that uses a third-party JavaScript project is the target.
InitOverlap ==
    /\ uses \in {u \in Graphs : u["R"] = {"A"}}
    /\ tgen = [R |-> DotNetLibrary, A |-> ThirdPartyJavaScript, T |-> VersionedLibrary]
    /\ options = [sbom_document_version |-> 1]
    /\ TargetProjects = <<"R">>
    /\ pc = "generate"
    /\ targetIndex = 1
    /\ loopIndex = 1
    /\ lookup = <<>>
    /\ files = [p \in Projects |-> NoFile]
    /\ now = 0
    /\ log = <<>>
    /\ last = NoStep
    /\ raised = NoError
    /\ resolved = NoCall
    /\ archived = [p \in Projects |-> NoFile]
    /\ calls = [k \in Callers |-> IdleCall]
    /\ suspended = NoRun
    /\ fragments = MaxOverlapFragLen

NextOverlap ==
    \/ GenerateInitialCustomSoftwareSbom
    \/ \E caller \in Callers : StartMerge(caller)
    \/ \E caller \in Callers : FinishMerge(caller)

SpecOverlap == InitOverlap /\ [][NextOverlap]_vars

\* Whether a document holds everything that a call of Merge wrote: its
\* components, and for every dependency entry the ids it listed.
HoldsAllOf(json, written) ==
    /\ Range(written.components) \subseteq Range(json.components)
    /\ \A k \in 1..Len(written.dependencies) :
          Range(written.dependencies[k].dependsOn) \subseteq DependsOn(json, written.dependencies[k].ref)

\* A call of Merge returned True, and the document in the file no longer
\* holds something that the call wrote.
LostUpdate(caller) ==
    /\ calls[caller].pc = "returned"
    /\ calls[caller].returned
    /\ files[TargetProjects[targetIndex]].state = "json"
    /\ ~HoldsAllOf(files[TargetProjects[targetIndex]].json, calls[caller].json)

\* Another call read the file before this call wrote it and wrote the file
\* after this call did.
OverwrittenByOverlappingCall(caller) ==
    \E other \in Callers \ {caller} :
        /\ calls[other].pc = "returned"
        /\ calls[other].returned
        /\ calls[other].readAt < calls[caller].wroteAt
        /\ calls[caller].wroteAt < calls[other].wroteAt

\* C14: Merge reads the file, changes the JSON object in memory and writes
\* it, in separate steps.  What a successful call added to the document is
\* dropped only by a call that had read the file before the first call wrote
\* it and that wrote the file afterwards: calls that do not overlap lose
\* nothing (as long as the file holds a document; a write that fails can
\* leave a file that does not).
C14_OnlyOverlappingCallsLoseUpdates ==
    \A caller \in Callers : LostUpdate(caller) => OverwrittenByOverlappingCall(caller)

\* C14 witness: two calls for different projects both read the file before
\* either wrote it and both returned True; the later write dropped the
\* component and the dependsOn entry that the earlier one had added.
C14_Witness ==
    /\ LostUpdate("first")
    /\ calls["second"].readAt < calls["first"].wroteAt
    /\ calls["first"].readAt < calls["second"].readAt
    /\ calls["first"].project /= calls["second"].project
    /\ LET json == files[TargetProjects[targetIndex]].json
       IN  /\ "pkgA" \in BomRefs(calls["first"].json.components)
           /\ "pkgA" \notin BomRefs(json.components)
           /\ "pkgA" \in DependsOn(calls["first"].json, LookupGet(lookup, calls["first"].project))
           /\ "pkgA" \notin DependsOn(json, LookupGet(lookup, calls["first"].project))

\* ---------------------------------------------------------------------
\* Two target projects: one run of Execute over both, in either order, or
\* two runs of Execute, one per target project, that take steps in turn
\* ---------------------------------------------------------------------

\* The position of the run of Execute that is taking steps.
RunningRun ==
    [TargetProjects |-> TargetProjects, pc |-> pc, targetIndex |-> targetIndex,
     loopIndex |-> loopIndex, lookup |-> lookup, log |-> log, last |-> last,
     raised |-> raised]

\* A run of Execute that has not taken a step.
NewRun(target_projects) ==
    [TargetProjects |-> target_projects, pc |-> "generate", targetIndex |-> 1,
     loopIndex |-> 1, lookup |-> <<>>, log |-> <<>>, last |-> NoStep,
     raised |-> NoError]

\* The other run of Execute goes on, from where it was.
SwitchRun ==
    /\ suspended.pc \notin {"none", "done", "raised"}
    /\ suspended' = RunningRun
    /\ TargetProjects' = suspended.TargetProjects
    /\ pc' = suspended.pc
    /\ targetIndex' = suspended.targetIndex
    /\ loopIndex' = suspended.loopIndex
    /\ lookup' = suspended.lookup
    /\ log' = suspended.log
    /\ last' = suspended.last
    /\ raised' = suspended.raised
    /\ UNCHANGED <<uses, tgen, options, files, now, resolved, archived, calls, fragments>>

\* Either one run over two target projects, in either order, or two runs
\* over one target project each, of which the root does not use the other.
InitParallel ==
    /\ uses \in Graphs
    /\ tgen \in {t \in GraphTaskGenerators : t["T"] = VersionedLibrary}
    /\ DefaultVersionProjectsReferenceOne(uses, tgen)
    /\ options = [sbom_document_version |-> 1]
    /\ \E first, second \in TargetCandidates :
          /\ first /= second
          /\ \/ /\ TargetProjects = <<first, second>>
                /\ suspended = NoRun
             \/ /\ TargetProjects = <<first>>
                /\ suspended = NewRun(<<second>>)
                /\ "A" \notin uses["R"]
    /\ pc = "generate"
    /\ targetIndex = 1
    /\ loopIndex = 1
    /\ lookup = <<>>
    /\ files = [p \in Projects |-> NoFile]
    /\ now = 0
    /\ log = <<>>
    /\ last = NoStep
    /\ raised = NoError
    /\ resolved = NoCall
    /\ archived = [p \in Projects |-> NoFile]
    /\ calls = [k \in Callers |-> IdleCall]
    /\ fragments = MaxOverlapFragLen

NextParallel ==
    \/ GenerateInitialCustomSoftwareSbom
    \/ IncludeDotNetDependenciesInCustomSoftwareSbom
    \/ IncludeJavaScriptDependenciesInCustomSoftwareSbom
    \/ GenerateSbomForContainerImage
    \/ SwitchRun

SpecParallel == InitParallel /\ [][NextParallel]_vars

\* What _GenerateInitialCustomSoftwareSbom writes for a target project that
\* is the only one, with an empty lookup, for given iteration orders.
AssembledAlone(target_project, order, popped, iteration_order, timestamp) ==
    LET built == GetSbomComponentJsonObjectsForProjectAndDependencies(order, popped, <<>>)
        edges == GetSbomDependencyJsonObjects(built.lookup, iteration_order)
    IN  IF built.raised = NoError /\ edges.raised = NoError
        THEN JsonFile(SbomJsonObject(built.components, edges.dependencies, timestamp))
        ELSE NoFile

\* The names of the Waf projects whose components a document holds.
ProjectsIn(json) ==
    {json.components[i]["name"] :
        i \in {k \in 1..Len(json.components) : HasKey(json.components[k], "name")}}

\* The step is one of the run that is taking steps, not a switch to the other.
StepOfRunningRun == TargetProjects' = TargetProjects

\* C15: target projects share nothing that changes.  A step of a run
\* changes no file but the one of its current target project and leaves the
\* position and the lookup of the other run alone; a switch of runs changes
\* no file.  The lookup of a target project is built from an empty one: the
\* document that the initial assembly writes is one that the assembly of
\* this target project alone writes, whatever was processed before or in
\* between, and every document holds the components of its own target
\* project and of its dependencies, and of no other project.
C15_TargetProjectsAreIndependent ==
    /\ [](/\ \A p \in Persisted : ProjectsIn(files[p].json) = ProjectWithDependencyProjects(p)
          /\ InitialAssemblyDone =>
                LET target_project == TargetProjects[targetIndex]
                    timestamp == IF files[target_project].state = "json"
                                 THEN files[target_project].json.metadata.timestamp
                                 ELSE now
                IN
                files[target_project] \in
                    {AssembledAlone(target_project, order, popped, iteration_order, timestamp) :
                        order \in Orderings(ProjectWithDependencyProjects(target_project)),
                        popped \in PopChoices,
                        iteration_order \in Orderings(Projects)} \ {NoFile})
    /\ [][/\ StepOfRunningRun =>
                /\ suspended' = suspended
                /\ \A p \in Projects \ {TargetProjects[targetIndex]} : files'[p] = files[p]
                /\ pc = "generate" =>
                      Range(LookupKeys(lookup')) \subseteq
                          ProjectWithDependencyProjects(TargetProjects[targetIndex])
          /\ ~StepOfRunningRun => files' = files]_vars

\* C15 witness: two runs take steps in turn; the one for the first target
\* project has merged a component into its document while the other run,
\* whose document is written, is in the middle of its loops.
C15_Witness ==
    /\ suspended.pc \in {"dot_net", "javascript"}
    /\ suspended.loopIndex > 1
    /\ MergeDone /\ last.returned
    /\ Len(TargetJson.components) > Len(last.before.json.components)
    /\ files[suspended.TargetProjects[1]].state = "json"
    /\ ProjectsIn(TargetJson) /= ProjectsIn(files[suspended.TargetProjects[1]].json)

\* Whether a sequence starts with another one.
IsPrefix(prefix, sequence) ==
    /\ Len(prefix) <= Len(sequence)
    /\ \A i \in 1..Len(prefix) : sequence[i] = prefix[i]

\* The components of a dependency metadata SBOM that are not raw files.
NonFileComponents(fragment) ==
    IF fragment.state = "json" /\ HasKey(fragment.json, "components")
    THEN {c \in Range(fragment.json.components) :
             HasKey(c, "type") /\ HasKey(c, "bom-ref") /\ c["type"] /= "file"}
    ELSE {}

\* C16: every document in a file holds exactly one component for the target
\* project and for each of its dependencies, before and after any merges.  A
\* call of Merge that leaves a document in the file leaves the components
\* that were there as they were and where they were; after a successful
\* call every component of the dependency metadata SBOM that is not a raw
\* file is in the document by its id, and what the call appended are such
\* components only.
C16_NoProjectIsDropped ==
    /\ \A p \in Persisted :
          \A q \in ProjectWithDependencyProjects(p) :
              /\ Occurrences(files[p].json.components, LAMBDA c : c["bom-ref"] = ResolvedUniqueId(q)) = 1
              /\ Occurrences(files[p].json.components, LAMBDA c : HasKey(c, "name") /\ c["name"] = q) = 1
    /\ (MergeDone /\ last.before.state = "json"
           /\ files[TargetProjects[targetIndex]].state = "json") =>
          IsPrefix(last.before.json.components, TargetJson.components)
    /\ (MergeDone /\ last.returned) =>
          /\ NonFileIds(last.fragment) \subseteq BomRefs(TargetJson.components)
          /\ \A i \in (Len(last.before.json.components) + 1)..Len(TargetJson.components) :
                TargetJson.components[i] \in NonFileComponents(last.fragment)

\* C16 witness: a document with the components of three projects, to which
\* a successful merge has appended one of the two components of a
\* dependency metadata SBOM, the other being a raw file.
C16_Witness ==
    /\ MergeDone /\ last.returned
    /\ Cardinality(ProjectWithDependencyProjects(TargetProjects[targetIndex])) = 3
    /\ Len(last.fragment.json.components) = 2
    /\ Cardinality(NonFileComponents(last.fragment)) = 1
    /\ Len(TargetJson.components) = 4
    /\ Len(last.before.json.components) = 3

\* C17: the dependency entries of the initial document are, item by item
\* of the lookup, the id of the project with the ids of exactly its immediate
\* dependencies, each once: a project without dependencies has an entry with
\* an empty dependsOn, and a project that is reached through another project
\* only is not listed.
C17_EdgesAreImmediateDependencies ==
    InitialAssemblyDone =>
        /\ Len(TargetJson.dependencies) = Len(lookup)
        /\ \A i \in 1..Len(lookup) :
              LET entry == TargetJson.dependencies[i]
                  project == lookup[i][1]
              IN  /\ DOMAIN entry = {"ref", "dependsOn"}
                  /\ entry.ref = lookup[i][2]
                  /\ Range(entry.dependsOn) =
                        {LookupGet(lookup, d) : d \in GetImmediateDependencies(project)}
                  /\ Len(entry.dependsOn) = Cardinality(GetImmediateDependencies(project))
                  /\ \A d \in GetAllDependencies(project) \ GetImmediateDependencies(project) :
                        LookupGet(lookup, d) \notin Range(entry.dependsOn)

\* C17 witness: the initial document of a root that uses a project that
\* uses a third one: the third is a dependency of the root that its entry
\* does not list, and has an entry with an empty dependsOn itself.
C17_Witness ==
    /\ InitialAssemblyDone
    /\ TargetProjects[targetIndex] = "R"
    /\ uses = [R |-> {"A"}, A |-> {"T"}, T |-> {}]
    /\ DependsOn(TargetJson, LookupGet(lookup, "R")) = {LookupGet(lookup, "A")}
    /\ DependsOn(TargetJson, LookupGet(lookup, "T")) = {}
    /\ tgen["A"].sbom_unique_id = None

\* The attributes for which a call of _GetSbomComponentJsonObject found no
\* value, neither on the project nor on the project it inherits from.
AttributesNotProvided ==
    {attribute \in {"version_number", "license_name", "sbom_package_url"} :
        /\ tgen[resolved.project][attribute] = None
        /\ resolved.inherited \in Projects => tgen[resolved.inherited][attribute] = None}

\* What a warning about an attribute is about.
WarningAbout(attribute) ==
    CASE attribute = "version_number" -> "version"
      [] attribute = "license_name" -> "license"
      [] attribute = "sbom_package_url" -> "purl"

\* A call of _GetSbomComponentJsonObject has returned a component.
ComponentResolved == resolved.project \in Projects /\ resolved.raised = NoError

\* C18: the call for a third-party project logs one warning, at the level
\* of warnings, for each of version, license and package URL that it had to
\* fill with a placeholder ("Unknown", "Unknown Third-Party License", the
\* generic package URL), and no other; the call for a first-party project
\* logs nothing, also when it falls back to the product version and to the
\* proprietary license.
C18_PlaceholdersAreWarnedAbout ==
    ComponentResolved =>
        IF tgen[resolved.project].third_party
        THEN /\ Len(resolved.warnings) = Cardinality(AttributesNotProvided)
             /\ log = resolved.warnings
             /\ \A attribute \in AttributesNotProvided :
                   Occurrences(resolved.warnings,
                               LAMBDA w : w = [level |-> "warn", about |-> WarningAbout(attribute),
                                               project |-> resolved.project]) = 1
             /\ "version_number" \in AttributesNotProvided <=> resolved.component["version"] = "Unknown"
             /\ "license_name" \in AttributesNotProvided <=>
                   resolved.component["licenses"][1].license.name = "Unknown Third-Party License"
             /\ "sbom_package_url" \in AttributesNotProvided =>
                   resolved.component["purl"] =
                       GenericPackageUrl(resolved.project, resolved.component["version"])
        ELSE /\ resolved.warnings = <<>>
             /\ log = <<>>
             /\ "version_number" \in AttributesNotProvided =>
                   resolved.component["version"] = product_version
             /\ "license_name" \in AttributesNotProvided =>
                   resolved.component["licenses"][1].license.name = "Your Organization Proprietary"

\* C18 witness: a call for a third-party project without any of the three
\* has logged three warnings.
C18_Witness ==
    /\ ComponentResolved
    /\ tgen[resolved.project].third_party
    /\ Len(resolved.warnings) = 3
    /\ resolved.component["purl"] = "pkg:generic/A@Unknown"

\* C19: the component of a call has either no 'purl' or a 'purl' that is
\* neither null nor the empty string; the component of a first-party
\* project for which no package URL was found, on the project or on the
\* project it inherits from, has no 'purl'.
C19_PurlAbsentOrNonEmpty ==
    ComponentResolved =>
        /\ HasKey(resolved.component, "purl") =>
              /\ resolved.component["purl"] /= None
              /\ resolved.component["purl"] /= ""
        /\ (~tgen[resolved.project].third_party /\ "sbom_package_url" \in AttributesNotProvided) =>
              ~HasKey(resolved.component, "purl")

\* ---------------------------------------------------------------------
\* C20
\* ---------------------------------------------------------------------

\* The prerequisites of the scan of a .NET project, and of a third-party
\* JavaScript project, by the warning given when one is missing.
DotNetPrerequisites == {"no build folder", "no lock file", "no metadata sbom"}

JavaScriptPrerequisites == {"no metadata attribute", "no metadata folder", "no metadata sbom"}

\* Whether the project of the current iteration qualifies for the scan of
\* the current loop, and the warning is about a prerequisite of that scan.
MissingPrerequisiteOf(project, about) ==
    \/ /\ pc = "dot_net"
       /\ GetFeatures(project) \cap DOT_NET_FEATURE_NAMES /= {}
       /\ about \in DotNetPrerequisites
    \/ /\ pc = "javascript"
       /\ JAVASCRIPT_FEATURE_NAME \in GetFeatures(project)
       /\ IsThirdParty(project)
       /\ about \in JavaScriptPrerequisites

\* Whether the step went on to the next key of the lookup, or past the
\* last key to the next phase.
LoopContinues ==
    IF loopIndex < Len(lookup)
    THEN loopIndex' = loopIndex + 1 /\ pc' = pc
    ELSE loopIndex' = 1 /\ pc' = (IF pc = "dot_net" THEN "javascript" ELSE "container_image")

\* C20: an iteration that finds a prerequisite of the scan missing, for a
\* project that qualifies, logs one warning about that prerequisite, does
\* not call Merge, leaves the custom software SBOM files as they were,
\* raises nothing, and the loop goes on with the next project.
C20_MissingPrerequisiteSkipsProject ==
    [][last'.op = "warn" =>
          /\ pc \in {"dot_net", "javascript"}
          /\ last'.project = lookup[loopIndex][1]
          /\ Len(log') = 1
          /\ log'[1].level = "warn"
          /\ log'[1].project = last'.project
          /\ MissingPrerequisiteOf(last'.project, log'[1].about)
          /\ last'.fragment = NoFile
          /\ last'.before = NoFile
          /\ files' = files
          /\ lookup' = lookup
          /\ raised' = NoError
          /\ LoopContinues]_vars

\* A .NET project without lock file was warned about, the document is as
\* it was assembled, and the loop is at the next project.
C20_Witness ==
    /\ last.op = "warn"
    /\ log = <<[level |-> "warn", about |-> "no lock file", project |-> last.project]>>
    /\ pc = "dot_net"
    /\ loopIndex = 2
    /\ lookup[1][1] = last.project
    /\ FullyAssembled(files[TargetProjects[targetIndex]])
    /\ raised = NoError


\* ---------------------------------------------------------------------
\* C21
\* ---------------------------------------------------------------------

\* The attributes that are resolved by precedence.
ResolvedAttributes == {"version_number", "license_name", "sbom_package_url"}

\* What the component of the call holds for an attribute; None when the
\* component has no 'purl'.
ComponentValue(attribute) ==
    CASE attribute = "version_number" -> resolved.component["version"]
      [] attribute = "license_name" -> resolved.component["licenses"][1].license.name
      [] attribute = "sbom_package_url" ->
            IF HasKey(resolved.component, "purl") THEN resolved.component["purl"] ELSE None

\* The default for an attribute that was found nowhere, by the
\* classification of the project of the call.
EcosystemDefault(attribute) ==
    IF tgen[resolved.project].third_party
    THEN CASE attribute = "version_number" -> "Unknown"
           [] attribute = "license_name" -> "Unknown Third-Party License"
           [] attribute = "sbom_package_url" ->
                 GenericPackageUrl(resolved.project, resolved.component["version"])
    ELSE CASE attribute = "version_number" -> product_version
           [] attribute = "license_name" -> "Your Organization Proprietary"
           [] attribute = "sbom_package_url" -> None

\* C21: version, license and package URL are each resolved by the same
\* precedence, whatever the other two are: the value set on the project
\* itself, also for a default version project whose referenced project has
\* another value; else the value set on the referenced project of a default
\* version project; else the default.
C21_SamePrecedenceForEachAttribute ==
    ComponentResolved =>
        \A attribute \in ResolvedAttributes :
            LET own == tgen[resolved.project][attribute]
                referenced == IF resolved.inherited \in Projects
                              THEN tgen[resolved.inherited][attribute]
                              ELSE None
            IN  ComponentValue(attribute) =
                    (IF own /= None THEN own
                     ELSE IF referenced /= None THEN referenced
                     ELSE EcosystemDefault(attribute))

\* C21 witness: a default version project with its own version, whose
\* referenced project has another version, a license and no package URL:
\* the version is its own, the license is inherited, the package URL is the
\* generic one.
C21_Witness ==
    /\ ComponentResolved
    /\ resolved.inherited \in Projects
    /\ tgen[resolved.project].third_party
    /\ tgen[resolved.project].version_number = "1.0"
    /\ tgen[resolved.inherited].version_number = "1.2"
    /\ tgen[resolved.project].license_name = None
    /\ tgen[resolved.inherited].license_name = "MIT"
    /\ tgen[resolved.project].sbom_package_url = None
    /\ tgen[resolved.inherited].sbom_package_url = None
    /\ resolved.component["version"] = "1.0"
    /\ resolved.component["licenses"][1].license.name = "MIT"
    /\ resolved.component["purl"] = "pkg:generic/A@1.0"


\* ---------------------------------------------------------------------
\* C22
\* ---------------------------------------------------------------------

\* A graph of four projects, for two pairs of projects with the same id.
MoreProjects == Projects \cup {"B"}

MoreProjectOrder == ProjectOrder \o <<"B">>

MoreGraphs ==
    {u \in [MoreProjects -> SUBSET MoreProjects] :
        \A i, j \in 1..Len(MoreProjectOrder) : MoreProjectOrder[j] \in u[MoreProjectOrder[i]] => i < j}

\* The manually set unique ids of the dependencies: none, one that two of
\* them can share, and the name of the root project.
ManualUniqueIds == {None, "x", "R"}

\* No project is a default version project: nothing is popped.
NothingPopped == [p \in MoreProjects |-> None]

InitOrder ==
    /\ uses \in MoreGraphs
    /\ tgen \in {t \in [MoreProjects -> {FirstPartyApplication}
                                        \cup {Custom(VersionedLibrary, id) : id \in ManualUniqueIds}] :
                    /\ t["R"] = FirstPartyApplication
                    /\ \A p \in MoreProjects \ {"R"} : t[p] /= FirstPartyApplication}
    /\ options = [sbom_document_version |-> 1]
    /\ TargetProjects = <<"R">>
    /\ pc = "build"
    /\ targetIndex = 1
    /\ loopIndex = 1
    /\ lookup = <<>>
    /\ files = [p \in Projects |-> NoFile]
    /\ now = 0
    /\ log = <<>>
    /\ last = NoStep
    /\ raised = NoError
    /\ resolved = NoCall
    /\ archived = [p \in Projects |-> NoFile]
    /\ calls = [k \in Callers |-> IdleCall]
    /\ suspended = NoRun
    /\ fragments = MaxFragLen

\* A call of _GetSbomComponentJsonObjectsForProjectAndDependencies for the
\* target project with an empty lookup; the set is iterated in some order.
BuildComponents ==
    /\ pc = "build"
    /\ LET target_project == TargetProjects[targetIndex] IN
       \E order \in Orderings(ProjectWithDependencyProjects(target_project)) :
          LET built == GetSbomComponentJsonObjectsForProjectAndDependencies(order, NothingPopped, <<>>)
          IN  /\ lookup' = built.lookup
              /\ log' = built.warnings
              /\ raised' = built.raised
              /\ last' = [op |-> "build", project |-> target_project, order |-> order,
                          components |-> built.components]
    /\ pc' = "built"
    /\ UNCHANGED <<uses, tgen, options, TargetProjects, targetIndex, loopIndex, files, now,
                   resolved, archived, calls, suspended, fragments>>

NextOrder == BuildComponents

SpecOrder == InitOrder /\ [][NextOrder]_vars

\* C22: whatever the order in which the set of the project and its
\* dependencies is iterated, the call raises the same error, for a
\* duplicate id with the same id, or returns the same set of components and
\* leaves the same pairs in the lookup.
C22_IterationOrderDoesNotMatter ==
    last.op = "build" =>
        \A order \in Orderings(ProjectWithDependencyProjects(last.project)) :
            LET other == GetSbomComponentJsonObjectsForProjectAndDependencies(order, NothingPopped, <<>>)
            IN  /\ other.raised = raised
                /\ raised = NoError =>
                      /\ Range(other.components) = Range(last.components)
                      /\ Range(other.lookup) = Range(lookup)


\* ---------------------------------------------------------------------
\* C23
\* ---------------------------------------------------------------------

\* The last step was a call of Merge that returned True.
MergeSucceeded == MergeDone /\ last.returned

PackageUrlSynthesized ==
    /\ ComponentResolved
    /\ tgen[resolved.project].third_party
    /\ "sbom_package_url" \in AttributesNotProvided

\* The version that the call resolved: the project's own, else the one of
\* the project it inherits from, else "Unknown" for a third-party project.
VersionResolvedForThirdParty ==
    IF tgen[resolved.project].version_number /= None
    THEN tgen[resolved.project].version_number
    ELSE IF resolved.inherited \in Projects /\ tgen[resolved.inherited].version_number /= None
    THEN tgen[resolved.inherited].version_number
    ELSE "Unknown"

\* C24, as stated: the synthesized package URL is exactly
\* generic/<name>@<version>, with the project's own name and the version
\* resolved for the component.
C24_GenericPurlWithoutScheme ==
    PackageUrlSynthesized =>
        /\ HasKey(resolved.component, "purl")
        /\ resolved.component["purl"] =
              "generic/" \o resolved.project \o "@" \o resolved.component["version"]

\* C24, amended: the synthesized package URL is exactly
\* pkg:generic/<name>@<version>, with the 'pkg:' scheme of a package URL,
\* the project's own name and the version resolved for the component
\* (its own, the inherited one, or "Unknown").
C24_GenericPurlWithScheme ==
    PackageUrlSynthesized =>
        /\ HasKey(resolved.component, "purl")
        /\ resolved.component["version"] = VersionResolvedForThirdParty
        /\ resolved.component["name"] = resolved.project
        /\ resolved.component["purl"] =
              "pkg:generic/" \o resolved.project \o "@" \o VersionResolvedForThirdParty

\* C24 witness: a third-party default version project without version and
\* package URL, whose referenced project has a version and no package URL:
\* the package URL is made of its own name and of the inherited version.
C24_Witness ==
    /\ PackageUrlSynthesized
    /\ resolved.inherited \in Projects
    /\ tgen[resolved.project].version_number = None
    /\ tgen[resolved.inherited].version_number = "1.2"
    /\ resolved.component["purl"] = "pkg:generic/A@1.2"


\* ---------------------------------------------------------------------
\* Trivy (src/Trivy/Trivy.py)
\* ---------------------------------------------------------------------

VULNERABILITY_REPORT_DIRECTORY_NAME == "TrivyVulnerabilityReports"

\* Waf.Building.Docker.DockerImage.DOCKER_FEATURE_NAME
DOCKER_FEATURE_NAME == "docker"

SUCCESS_EXIT_CODE == 0

\* The exit code that ScanDockerImage asks Trivy to return when it finds
\* vulnerabilities.
VULNERABILITIES_FOUND_EXIT_CODE == 21

\* The exit codes of the Trivy command in the model.
ExitCodes == {0, 1, 21, 255}

\* The values of vulnerabilities_found_exit_code in the model.
VulnerabilitiesFoundExitCodes == {0, 1, 21}

NoVulnerabilitiesMessage(vulnerability_report_filepath) ==
    [text |-> "No vulnerabilities were found in the vulnerability scan.",
     report |-> vulnerability_report_filepath]

VulnerabilitiesFoundMessage(vulnerability_report_filepath) ==
    [text |-> "Vulnerabilities were found in the vulnerability scan.",
     report |-> vulnerability_report_filepath]

ErrorMessage(scan_target_description, exit_code) ==
    [text |-> "An error occurred while scanning", target |-> scan_target_description,
     code |-> exit_code]

\* Mutant of OpenVulnerabilityReport: the report is opened whenever asked
\* for, there or not.
OpenWheneverRequested(vulnerability_report_exists, open_generated_files) == open_generated_files

\* Whether the report is opened.
OpenVulnerabilityReport(vulnerability_report_exists, open_generated_files) ==
    vulnerability_report_exists /\ open_generated_files

\* The message that GenerateTrivyVulnerabilityReport returns and whether it
\* opens the report, for an exit code of the command and for a report that
\* exists or not afterwards.
TrivyVulnerabilityReport(exit_code, vulnerability_report_exists, description, filepath, found_exit_code) ==
    LET vulnerability_scan_succeeded == SUCCESS_EXIT_CODE = exit_code
        vulnerabilities_found == found_exit_code = exit_code
        vulnerability_scan_result_message ==
            IF vulnerability_scan_succeeded
            THEN NoVulnerabilitiesMessage(filepath)
            ELSE IF vulnerabilities_found
            THEN VulnerabilitiesFoundMessage(filepath)
            ELSE ErrorMessage(description, exit_code)
    IN  [op |-> "trivy",
         exit_code |-> exit_code,
         vulnerabilities_found_exit_code |-> found_exit_code,
         vulnerability_report_exists |-> vulnerability_report_exists,
         message |-> vulnerability_scan_result_message,
         opened |-> OpenVulnerabilityReport(vulnerability_report_exists, options.open)]

\* The vulnerability report of a project.
GetVulnerabilityReport(project) ==
    VULNERABILITY_REPORT_DIRECTORY_NAME \o "/" \o project \o "/ContainerVulnerabilityReport.html"

\* The projects of a Trivy run: with a Docker image or without.
TrivyTaskGenerators ==
    [Projects -> {FirstPartyApplication, TaskGenerator({DOCKER_FEATURE_NAME}, FALSE, FALSE, FALSE)}]

InitTrivy ==
    /\ uses = [p \in Projects |-> {}]
    /\ tgen \in TrivyTaskGenerators
    /\ options \in {[open |-> open] : open \in BOOLEAN}
    /\ TargetProjects = <<>>
    /\ pc = "scan"
    /\ targetIndex = 1
    /\ loopIndex = 1
    /\ lookup = <<>>
    /\ files = [p \in Projects |-> NoFile]
    /\ now = 0
    /\ log = <<>>
    /\ last = NoStep
    /\ raised = NoError
    /\ resolved = NoCall
    /\ archived = [p \in Projects |-> NoFile]
    /\ calls = [k \in Callers |-> IdleCall]
    /\ suspended = NoRun
    /\ fragments = MaxFragLen

\* A call of GenerateTrivyVulnerabilityReport: the command runs and ends
\* with some exit code, the report is there afterwards or not.
GenerateTrivyVulnerabilityReport ==
    /\ pc = "scan"
    /\ \E exit_code \in ExitCodes, vulnerability_report_exists \in BOOLEAN,
          scan_target_description \in {"image.tar.gz", "CustomSoftwareSbom.json"},
          vulnerabilities_found_exit_code \in VulnerabilitiesFoundExitCodes :
          last' = TrivyVulnerabilityReport(exit_code, vulnerability_report_exists,
                                           scan_target_description, "report.html",
                                           vulnerabilities_found_exit_code)
    /\ UNCHANGED <<uses, tgen, options, TargetProjects, pc, targetIndex, loopIndex, lookup,
                   files, now, log, raised, resolved, archived, calls, suspended, fragments>>

\* A call of ScanDockerImage for a project, on Linux or not.
ScanDockerImage ==
    /\ pc = "scan"
    /\ \E project \in Projects, platform_is_linux \in BOOLEAN :
          LET project_includes_docker_image == DOCKER_FEATURE_NAME \in GetFeatures(project)
              trivy_can_be_used == platform_is_linux /\ project_includes_docker_image
          IN  IF ~trivy_can_be_used
              THEN last' = [op |-> "not applicable", message |-> "N/A", opened |-> FALSE]
              ELSE \E exit_code \in ExitCodes, vulnerability_report_exists \in BOOLEAN :
                      last' = TrivyVulnerabilityReport(exit_code, vulnerability_report_exists,
                                                       project \o ".tar.gz",
                                                       GetVulnerabilityReport(project),
                                                       VULNERABILITIES_FOUND_EXIT_CODE)
    /\ UNCHANGED <<uses, tgen, options, TargetProjects, pc, targetIndex, loopIndex, lookup,
                   files, now, log, raised, resolved, archived, calls, suspended, fragments>>

NextTrivy ==
    \/ GenerateTrivyVulnerabilityReport
    \/ ScanDockerImage

SpecTrivy == InitTrivy /\ [][NextTrivy]_vars

\* ---------------------------------------------------------------------
\* C25
\* ---------------------------------------------------------------------

\* C25: the message of a scan follows from the exit code of the command
\* alone: exit code 0 gives the message that no vulnerabilities were found;
\* an exit code other than 0 that is vulnerabilities_found_exit_code gives
\* the message that vulnerabilities were found; every other exit code gives
\* the error message.  The report is opened exactly when it exists and the
\* option to open generated files is set, whatever the exit code.
C25_ExitCodeClassifiesScan ==
    last.op = "trivy" =>
        /\ last.exit_code = 0 =>
              last.message.text = "No vulnerabilities were found in the vulnerability scan."
        /\ (last.exit_code /= 0 /\ last.exit_code = last.vulnerabilities_found_exit_code) =>
              last.message.text = "Vulnerabilities were found in the vulnerability scan."
        /\ (last.exit_code /= 0 /\ last.exit_code /= last.vulnerabilities_found_exit_code) =>
              /\ last.message.text = "An error occurred while scanning"
              /\ last.message.code = last.exit_code
        /\ last.opened <=> (last.vulnerability_report_exists /\ options.open)

\* C25 witness: the command ended with an exit code that is an error, the
\* report is there and is opened.
C25_Witness ==
    /\ last.op = "trivy"
    /\ last.exit_code = 255
    /\ last.vulnerabilities_found_exit_code = VULNERABILITIES_FOUND_EXIT_CODE
    /\ last.message.text = "An error occurred while scanning"
    /\ last.vulnerability_report_exists
    /\ last.opened


\* ---------------------------------------------------------------------
\* C26
\* ---------------------------------------------------------------------

\* The exceptions of Merge that occur before it writes: a file that cannot
\* be read as JSON, a key that is missing (in the dependency metadata SBOM,
\* in one of its components, in the lookup, among the dependency entries).
FailuresBeforeWrite == {"ReadError", "KeyError"}

\* C26: a call of Merge that returned False for a failure before its write
\* left the custom software SBOM file exactly as it was before the call;
\* this holds for every project as the owning project, also for one that
\* is not a key of the lookup.
C26_FailedMergeWritesNothing ==
    MergeDone =>
        /\ (~last.returned /\ last.caught.type \in FailuresBeforeWrite) =>
              files[TargetProjects[targetIndex]] = last.before
        /\ \A project \in Projects :
              \A outcome \in MergeDependencyMetadataSbomIntoCustomSoftwareSbom(
                                 project, lookup, last.fragment, last.before) :
                  (~outcome.returned /\ outcome.caught.type \in FailuresBeforeWrite) =>
                      outcome.file = last.before

\* C26 witness: the dependency metadata SBOM lists a package that is not in
\* the document and then a component without 'type'; Merge added the
\* package in memory, failed on the other, returned False, and the
\* document in the file is the one from before.
C26_Witness ==
    /\ MergeDone
    /\ ~last.returned
    /\ last.caught.type = "KeyError"
    /\ last.fragment.state = "json"
    /\ HasKey(last.fragment.json, "components")
    /\ Len(last.fragment.json.components) = 2
    /\ last.fragment.json.components[1] = ("bom-ref" :> "pkgA") @@ ("type" :> "library")
    /\ ~HasKey(last.fragment.json.components[2], "type")
    /\ last.before.state = "json"
    /\ "pkgA" \notin BomRefs(last.before.json.components)
    /\ files[TargetProjects[targetIndex]] = last.before


\* ---------------------------------------------------------------------
\* C27
\* ---------------------------------------------------------------------

\* Execute was left with the duplicate bom-ref error.
DuplicateBomRefRaised == pc = "raised" /\ raised.type = "WafError"

\* C27: the step that raises the duplicate bom-ref error for a target
\* project is its initial assembly; it writes no file, so the documents of
\* the target projects before it are as they were; Execute is left, and no
\* step follows: the files of that target project and of those after it are
\* not written, and no call of Merge is made for them.
C27_CollisionStopsTheRun ==
    /\ [](DuplicateBomRefRaised =>
             /\ last.op = "generate"
             /\ last.project = TargetProjects[targetIndex]
             /\ \A i \in targetIndex..Len(TargetProjects) : files[TargetProjects[i]] = NoFile)
    /\ [][/\ pc /= "raised"
          /\ raised'.type = "WafError" =>
                /\ pc = "generate"
                /\ pc' = "raised"
                /\ targetIndex' = targetIndex
                /\ files' = files]_vars

\* C27 witness: the error was raised for the second of two target projects;
\* the document of the first is in its file.
C27_Witness ==
    /\ DuplicateBomRefRaised
    /\ Len(TargetProjects) = 2
    /\ targetIndex = 2
    /\ files[TargetProjects[1]].state = "json"
    /\ TargetProjects[1] \in {files[TargetProjects[1]].json.components[i]["name"] :
                                 i \in 1..Len(files[TargetProjects[1]].json.components)}
    /\ files[TargetProjects[2]] = NoFile


\* ---------------------------------------------------------------------
\* C28
\* ---------------------------------------------------------------------

\* A run of Execute in which Syft produces short dependency metadata SBOMs.
InitShortFragments ==
    /\ uses \in Graphs
    /\ tgen \in GraphTaskGenerators
    /\ DefaultVersionProjectsReferenceOne(uses, tgen)
    /\ options = [sbom_document_version |-> 1]
    /\ TargetProjects \in TargetLists
    /\ pc = "generate"
    /\ targetIndex = 1
    /\ loopIndex = 1
    /\ lookup = <<>>
    /\ files = [p \in Projects |-> NoFile]
    /\ now = 0
    /\ log = <<>>
    /\ last = NoStep
    /\ raised = NoError
    /\ resolved = NoCall
    /\ archived = [p \in Projects |-> NoFile]
    /\ calls = [k \in Callers |-> IdleCall]
    /\ suspended = NoRun
    /\ fragments = MaxOverlapFragLen

NextShortFragments ==
    \/ GenerateInitialCustomSoftwareSbom
    \/ IncludeDotNetDependenciesInCustomSoftwareSbom
    \/ IncludeJavaScriptDependenciesInCustomSoftwareSbom
    \/ GenerateSbomForContainerImage

SpecShortFragments == InitShortFragments /\ [][NextShortFragments]_vars

\* The file after a call of Merge whose write, if it gets there, succeeds.
AfterMerge(project, fragment, file) ==
    (CHOOSE outcome \in MergeDependencyMetadataSbomIntoCustomSoftwareSbom(project, lookup, fragment, file) :
        outcome.caught.type /= "WriteError").file

\* The dependency metadata SBOMs that are merged second: as long as the
\* one merged first.
SecondFragments == DependencyMetadataFilesUpTo(fragments)

\* The document after the merge of a first and of a second dependency
\* metadata SBOM, each for its owning project, into the document of a file.
MergedInOrder(first_project, first_fragment, second_project, second_fragment, file) ==
    AfterMerge(second_project, second_fragment, AfterMerge(first_project, first_fragment, file)).json

C29_EveryProjectHasComponent ==
    resolved.project \in Projects =>
        /\ resolved.raised = NoError
        /\ (tgen[resolved.project].default_version /\ uses[resolved.project] = {}) =>
              \A attribute \in ResolvedAttributes :
                  ComponentValue(attribute) =
                      (IF tgen[resolved.project][attribute] /= None
                       THEN tgen[resolved.project][attribute]
                       ELSE EcosystemDefault(attribute))


\* ---------------------------------------------------------------------
\* C30
\* ---------------------------------------------------------------------

\* A chain of projects: a default version project R that references A,
\* which references T and can be a default version project itself.  R has
\* no value of its own; A and T can have each of them.
ChainTaskGenerators ==
    [R : [features : {{"cxxstlib"}}, third_party : BOOLEAN, library : BOOLEAN,
          default_version : {TRUE},
          version_number : {None}, license_name : {None},
          sbom_package_url : {None}, sbom_unique_id : {None}],
     A : [features : {{"cxxstlib"}}, third_party : BOOLEAN, library : BOOLEAN,
          default_version : BOOLEAN,
          version_number : Optional("1.0"), license_name : Optional("Apache-2.0"),
          sbom_package_url : Optional("pkg:npm/a@1.0"), sbom_unique_id : Optional("custom")],
     T : [features : {{"cxxstlib"}}, third_party : {TRUE}, library : {TRUE},
          default_version : {FALSE},
          version_number : Optional("1.2"), license_name : Optional("MIT"),
          sbom_package_url : Optional("pkg:generic/T@1.2"), sbom_unique_id : {None}]]

InitChain ==
    /\ uses = [p \in Projects |-> IF p = "R" THEN {"A"} ELSE IF p = "A" THEN {"T"} ELSE {}]
    /\ tgen \in ChainTaskGenerators
    /\ options = [sbom_document_version |-> 1]
    /\ TargetProjects = <<>>
    /\ pc = "resolve"
    /\ targetIndex = 1
    /\ loopIndex = 1
    /\ lookup = <<>>
    /\ files = [p \in Projects |-> NoFile]
    /\ now = 0
    /\ log = <<>>
    /\ last = NoStep
    /\ raised = NoError
    /\ resolved = NoCall
    /\ archived = [p \in Projects |-> NoFile]
    /\ calls = [k \in Callers |-> IdleCall]
    /\ suspended = NoRun
    /\ fragments = MaxFragLen

NextChain == ResolveProject

SpecChain == InitChain /\ [][NextChain]_vars

\* The call was for a default version project that references a project.
InheritingCall == ComponentResolved /\ resolved.inherited \in Projects

\* C30: a default version project D that references P takes only what is
\* set on P itself.  For each of version, license and package URL that
\* neither D nor P sets, the component of D has D's own default, by D's own
\* classification as first-party or third-party and with D's own name,
\* whatever the component of P has.  The bom-ref of D is D's own unique id
\* or name, and its type follows from D being a library or not.
C30_InheritanceIsOneLevel ==
    InheritingCall =>
        LET D == resolved.project
            P == resolved.inherited
        IN  /\ \A attribute \in ResolvedAttributes :
                  (tgen[D][attribute] = None /\ tgen[P][attribute] = None) =>
                      ComponentValue(attribute) = EcosystemDefault(attribute)
            /\ "sbom_package_url" \in AttributesNotProvided =>
                  ComponentValue("sbom_package_url") =
                      (IF tgen[D].third_party
                       THEN "pkg:generic/" \o D \o "@" \o resolved.component["version"]
                       ELSE None)
            /\ resolved.component["name"] = D
            /\ resolved.component["bom-ref"] =
                  (IF tgen[D].sbom_unique_id /= None THEN tgen[D].sbom_unique_id ELSE D)
            /\ resolved.component["type"] = (IF tgen[D].library THEN "library" ELSE "application")

\* C30 witness: a first-party default version application references a
\* third-party default version library without values of its own, with a
\* manual unique id, which references a project with all values: its
\* component has the product version, the proprietary license, no package
\* URL, its own name as bom-ref and the type of an application, while the
\* component of the referenced project has the values of the third project.
C30_Witness ==
    /\ InheritingCall
    /\ resolved.project = "R"
    /\ resolved.inherited = "A"
    /\ ~tgen["R"].third_party /\ ~tgen["R"].library
    /\ tgen["A"].third_party /\ tgen["A"].library /\ tgen["A"].default_version
    /\ tgen["A"].sbom_unique_id = "custom"
    /\ tgen["A"].version_number = None
    /\ tgen["A"].license_name = None
    /\ tgen["A"].sbom_package_url = None
    /\ GetSbomComponentJsonObject("A", "T").component["version"] = "1.2"
    /\ GetSbomComponentJsonObject("A", "T").component["purl"] = "pkg:generic/T@1.2"
    /\ resolved.component["version"] = product_version
    /\ resolved.component["licenses"][1].license.name = "Your Organization Proprietary"
    /\ ~HasKey(resolved.component, "purl")
    /\ resolved.component["bom-ref"] = "R"
    /\ resolved.component["type"] = "application"

====
